---------------------------- MODULE Spec2Model ----------------------------
(***************************************************************************)
(* A model of urlblob: ranged reads of a remote blob over HTTP, the        *)
(* boundary-safe UTF-8 text accessors (grow / shrink), the Range header    *)
(* codec and the size decoding of UrlBlobStats.                            *)
(*                                                                         *)
(* Bytes are the integers 0..255, byte strings are sequences of bytes,     *)
(* decoded strings are sequences of code points, header texts are          *)
(* sequences of one-character strings.  Offsets and error positions are    *)
(* 0-based as in the Python source; sequence indices are 1-based.          *)
(***************************************************************************)
EXTENDS Integers, Sequences, FiniteSets, TLC

(***************************************************************************)
(* Bounds of the model.                                                    *)
(***************************************************************************)
\* longest blob read through a handle with an explicit url_type
MaxTaggedLen == 1

\* longest blob read by the asynchronous and the synchronous grow side by side
MaxPairLen == 3

\* longest blob read by grow under its own specification
MaxGrowLen == 6

\* longest blob trimmed by shrink under the fair specification
MaxShrinkLen == 4

\* longest blob of arbitrary (possibly invalid) bytes
MaxRawLen == 5
\* most code points in the middle part of a valid UTF-8 blob
MaxCps == 2
\* ASCII padding put before / after the middle part of a valid blob
MaxPad == 4
\* largest offset used as an argument of the byte-returning operations
MaxByteArg == 1

(***************************************************************************)
(* Program constants.                                                      *)
(***************************************************************************)
\* blob.py:133 "if left_extension >= 4 or right_extension >= 4"
MaxExtension == 4

\* Optional values: None is the empty tuple, a present value x is <<x>>.
None == <<>>
Some(x) == <<x>>
IsNone(o) == o = <<>>
Val(o) == o[1]
Opt(S) == {None} \cup {Some(x) : x \in S}

(***************************************************************************)
(* str.decode("utf-8"): the strict decoder and its UnicodeDecodeError      *)
(* (reason, start, end), and the errors="replace" variant.                 *)
(***************************************************************************)
IsContinuation(ch) == ch >= 128 /\ ch <= 191

\* the code point carried by the n bytes at index i
CodePointAt(b, i, n) ==
    CASE n = 1 -> b[i]
      [] n = 2 -> (b[i] % 32) * 64 + (b[i + 1] % 64)
      [] n = 3 -> (b[i] % 16) * 4096 + (b[i + 1] % 64) * 64 + (b[i + 2] % 64)
      [] OTHER -> (b[i] % 8) * 262144 + (b[i + 1] % 64) * 4096
                     + (b[i + 2] % 64) * 64 + (b[i + 3] % 64)

\* the second byte of a 3- or 4-byte sequence is out of its range
BadSecond(ch, ch2) ==
    \/ ~IsContinuation(ch2)
    \/ ch = 224 /\ ch2 < 160
    \/ ch = 237 /\ ch2 >= 160
    \/ ch = 240 /\ ch2 < 144
    \/ ch = 244 /\ ch2 >= 144

\* One decoding step at index i: a code point of n bytes, or an error whose
\* span is the n bytes from i.
DecodeAt(b, i) ==
    LET ch    == b[i]
        avail == Len(b) - i + 1
        Good(n)   == [kind |-> "cp", n |-> n, cp |-> CodePointAt(b, i, n)]
        Err(r, n) == [kind |-> r, n |-> n, cp |-> 0]
        Trunc     == Err("unexpected end of data", avail)
        BadCont(n) == Err("invalid continuation byte", n)
    IN  IF ch < 128 THEN Good(1)
        ELSE IF ch < 194 THEN Err("invalid start byte", 1)
        ELSE IF ch < 224 THEN
            IF avail < 2 THEN Trunc
            ELSE IF ~IsContinuation(b[i + 1]) THEN BadCont(1)
            ELSE Good(2)
        ELSE IF ch < 240 THEN
            IF avail < 2 THEN Trunc
            ELSE IF BadSecond(ch, b[i + 1]) THEN BadCont(1)
            ELSE IF avail < 3 THEN Trunc
            ELSE IF ~IsContinuation(b[i + 2]) THEN BadCont(2)
            ELSE Good(3)
        ELSE IF ch < 245 THEN
            IF avail < 2 THEN Trunc
            ELSE IF BadSecond(ch, b[i + 1]) THEN BadCont(1)
            ELSE IF avail < 3 THEN Trunc
            ELSE IF ~IsContinuation(b[i + 2]) THEN BadCont(2)
            ELSE IF avail < 4 THEN Trunc
            ELSE IF ~IsContinuation(b[i + 3]) THEN BadCont(3)
            ELSE Good(4)
        ELSE Err("invalid start byte", 1)

RECURSIVE DecodeFrom(_, _, _)
DecodeFrom(b, i, acc) ==
    IF i > Len(b) THEN [ok |-> TRUE, text |-> acc, reason |-> "", start |-> 0, end |-> 0]
    ELSE LET d == DecodeAt(b, i)
         IN  IF d.kind = "cp" THEN DecodeFrom(b, i + d.n, Append(acc, d.cp))
             ELSE [ok |-> FALSE, text |-> <<>>, reason |-> d.kind,
                   start |-> i - 1, end |-> i - 1 + d.n]

\* bytes.decode("utf-8")
DecodeStrict(b) == DecodeFrom(b, 1, <<>>)

\* U+FFFD
ReplacementChar == 65533

RECURSIVE ReplaceFrom(_, _, _)
ReplaceFrom(b, i, acc) ==
    IF i > Len(b) THEN acc
    ELSE LET d == DecodeAt(b, i)
         IN  IF d.kind = "cp" THEN ReplaceFrom(b, i + d.n, Append(acc, d.cp))
             ELSE ReplaceFrom(b, i + d.n, Append(acc, ReplacementChar))

\* bytes.decode("utf-8", errors="replace")
DecodeReplace(b) == ReplaceFrom(b, 1, <<>>)


(***************************************************************************)
(* Texts (header values) are sequences of one-character strings.           *)
(***************************************************************************)
DigitChars == <<"0", "1", "2", "3", "4", "5", "6", "7", "8", "9">>

IsDigitChar(c) == \E d \in 1..10 : DigitChars[d] = c

DigitValue(c) == (CHOOSE d \in 1..10 : DigitChars[d] = c) - 1

\* f"{n}": the decimal text of an integer
RECURSIVE IntToText(_)
IntToText(n) ==
    IF n < 0 THEN <<"-">> \o IntToText(0 - n)
    ELSE IF n < 10 THEN <<DigitChars[n + 1]>>
    ELSE IntToText(n \div 10) \o <<DigitChars[(n % 10) + 1]>>

\* the value of a text of decimal digits
RECURSIVE DigitsValue(_, _)
DigitsValue(t, acc) ==
    IF t = <<>> THEN acc
    ELSE DigitsValue(Tail(t), acc * 10 + DigitValue(Head(t)))

\* int(text): the value of a non-empty text of decimal digits, ValueError otherwise
ParseInt(t) ==
    IF t # <<>> /\ \A k \in 1..Len(t) : IsDigitChar(t[k])
    THEN [kind |-> "int", value |-> DigitsValue(t, 0)]
    ELSE [kind |-> "ValueError", value |-> 0]

\* text.split(sep)[-1]: what follows the last occurrence of sep
SplitLast(t, sep) ==
    LET at == {k \in 1..Len(t) : t[k] = sep}
    IN  IF at = {} THEN t
        ELSE SubSeq(t, (CHOOSE k \in at : \A j \in at : j <= k) + 1, Len(t))

(***************************************************************************)
(* util.build_get_headers                                                  *)
(***************************************************************************)
BytesEq == <<"b", "y", "t", "e", "s", "=">>

\* f"bytes={range_start}-{range_end if range_end is not None else ''}"
RangeText(range_start, range_end_opt) ==
    BytesEq \o IntToText(range_start) \o <<"-">>
        \o (IF IsNone(range_end_opt) THEN <<>> ELSE IntToText(Val(range_end_opt)))

\* "x or 0" for an optional integer
OrZero(o) == IF IsNone(o) \/ Val(o) = 0 THEN 0 ELSE Val(o)

\* build_get_headers without the check of conflicting parameters
build_get_headers_unchecked(byte_range, start, end) ==
    IF ~IsNone(byte_range)
    THEN [raised |-> FALSE,
          Range |-> Some(RangeText(OrZero(Some(Val(byte_range).start)),
                                   Some(Val(byte_range).stop - 1)))]
    ELSE IF ~IsNone(start) \/ ~IsNone(end)
    THEN [raised |-> FALSE, Range |-> Some(RangeText(OrZero(start), end))]
    ELSE [raised |-> FALSE, Range |-> None]

\* build_get_headers testing "start is not None" only before it emits a Range
build_get_headers_start_only(byte_range, start, end) ==
    IF ~IsNone(byte_range) /\ (~IsNone(start) \/ ~IsNone(end))
    THEN [raised |-> TRUE, Range |-> None]
    ELSE IF ~IsNone(byte_range)
    THEN [raised |-> FALSE,
          Range |-> Some(RangeText(OrZero(Some(Val(byte_range).start)),
                                   Some(Val(byte_range).stop - 1)))]
    ELSE IF ~IsNone(start)
    THEN [raised |-> FALSE, Range |-> Some(RangeText(OrZero(start), end))]
    ELSE [raised |-> FALSE, Range |-> None]

\* The outcome of build_get_headers: raised = TRUE for the ValueError of
\* conflicting parameters, otherwise Range is the optional header text.
build_get_headers(byte_range, start, end) ==
    IF ~IsNone(byte_range) /\ (~IsNone(start) \/ ~IsNone(end))
    THEN [raised |-> TRUE, Range |-> None]
    ELSE IF ~IsNone(byte_range)
    THEN [raised |-> FALSE,
          Range |-> Some(RangeText(OrZero(Some(Val(byte_range).start)),
                                   Some(Val(byte_range).stop - 1)))]
    ELSE IF ~IsNone(start) \/ ~IsNone(end)
    THEN [raised |-> FALSE, Range |-> Some(RangeText(OrZero(start), end))]
    ELSE [raised |-> FALSE, Range |-> None]

(***************************************************************************)
(* stat.UrlBlobStats: headers are [content_range, content_length], each an *)
(* optional text.                                                          *)
(***************************************************************************)
\* size_or_none reading Content-Length before Content-Range
size_or_none_length_first(headers) ==
    LET content_length ==
            IF ~IsNone(headers.content_length) THEN headers.content_length
            ELSE IF ~IsNone(headers.content_range) /\ Val(headers.content_range) # <<>>
            THEN Some(SplitLast(Val(headers.content_range), "/"))
            ELSE None
    IN  IF ~IsNone(content_length) THEN ParseInt(Val(content_length))
        ELSE [kind |-> "None", value |-> 0]

size_or_none(headers) ==
    LET content_range == headers.content_range
        content_length ==
            IF ~IsNone(content_range) /\ Val(content_range) # <<>>
            THEN Some(SplitLast(Val(content_range), "/"))
            ELSE headers.content_length
    IN  IF ~IsNone(content_length) THEN ParseInt(Val(content_length))
        ELSE [kind |-> "None", value |-> 0]

size(headers) ==
    LET s == size_or_none(headers)
    IN  IF s.kind = "None" THEN [kind |-> "ValueError", value |-> 0] ELSE s

(***************************************************************************)
(* common.UrlType and util.detect_url_type.  A URL is a sequence of        *)
(* one-character strings; a pattern is a sequence of characters in which   *)
(* "ANY" stands for the regular expression's unescaped dot.                *)
(***************************************************************************)
UrlTypes == {"S3", "GCP", "AZURE", "GENERIC"}

\* the pattern matches the characters of url from index i on
MatchesAt(url, i, pattern) ==
    /\ i + Len(pattern) - 1 <= Len(url)
    /\ \A k \in 1..Len(pattern) : pattern[k] = "ANY" \/ url[i + k - 1] = pattern[k]

\* re.search of a pattern without repetition
Search(url, pattern) == \E i \in 1..Len(url) : MatchesAt(url, i, pattern)

\* the character class [a-z0-9-]
RegionChars ==
    {"a", "b", "c", "d", "e", "f", "g", "h", "i", "j", "k", "l", "m", "n", "o",
     "p", "q", "r", "s", "t", "u", "v", "w", "x", "y", "z", "0", "1", "2", "3",
     "4", "5", "6", "7", "8", "9", "-"}

\* re.search of  \.s3\.[a-z0-9-]+\.amazonaws\.com
SearchS3Regional(url) ==
    LET head == <<".", "s", "3", ".">>
        tail == <<".", "a", "m", "a", "z", "o", "n", "a", "w", "s", ".",
                "c", "o", "m">>
    IN  \E i \in 1..Len(url) : \E n \in 1..Len(url) :
            /\ MatchesAt(url, i, head)
            /\ i + Len(head) + n - 1 <= Len(url)
            /\ \A k \in 0..(n - 1) : url[i + Len(head) + k] \in RegionChars
            /\ MatchesAt(url, i + Len(head) + n, tail)

is_s3_compatible(url) ==
    \/ SearchS3Regional(url)
    \/ Search(url, <<"s", "3", ".", "a", "m", "a", "z", "o", "n", "a", "w",
            "s", ".", "c", "o", "m">>)
    \/ Search(url, <<".", "y", "o", "u", "r", "-", "o", "b", "j", "e", "c",
            "t", "s", "t", "o", "r", "a", "g", "e", "ANY", "c", "o", "m">>)

is_gcp_compatible(url) ==
    \/ Search(url, <<".", "s", "t", "o", "r", "a", "g", "e", ".", "g", "o",
            "o", "g", "l", "e", "a", "p", "i", "s", ".", "c", "o", "m">>)
    \/ Search(url, <<"s", "t", "o", "r", "a", "g", "e", ".", "c", "l", "o",
            "u", "d", ".", "g", "o", "o", "g", "l", "e", ".", "c", "o", "m">>)

is_azure_compatible(url) ==
    Search(url, <<".", "b", "l", "o", "b", ".", "c", "o", "r", "e", ".",
            "w", "i", "n", "d", "o", "w", "s", ".", "n", "e", "t">>)

\* the providers are tried in the opposite order
detect_url_type_azure_first(url) ==
    IF is_azure_compatible(url) THEN "AZURE"
    ELSE IF is_gcp_compatible(url) THEN "GCP"
    ELSE IF is_s3_compatible(url) THEN "S3"
    ELSE "GENERIC"

detect_url_type(url) ==
    IF is_s3_compatible(url) THEN "S3"
    ELSE IF is_gcp_compatible(url) THEN "GCP"
    ELSE IF is_azure_compatible(url) THEN "AZURE"
    ELSE "GENERIC"

\* UrlBlob.__init__ / SyncUrlBlob.__init__: the handle for a URL and an
\* optional explicit url_type (given records that argument)
NewHandle(url, url_type) ==
    [url |-> url, given |-> url_type,
     url_type |-> IF ~IsNone(url_type) THEN Val(url_type) ELSE detect_url_type(url)]

\* util.build_put_headers: the headers of a PUT, each present or absent
build_put_headers(url_type, content_type) ==
    [content_type |-> IF ~IsNone(content_type) /\ Val(content_type) # ""
                      THEN content_type ELSE None,
     x_ms_blob_type |-> IF url_type = "AZURE" THEN Some("BlockBlob") ELSE None]

(***************************************************************************)
(* error.parse_error.  The body of a failed response is a sequence of      *)
(* tokens: an opening tag, a closing tag, character data, or bytes that    *)
(* are not valid UTF-8.                                                    *)
(***************************************************************************)
Open(name) == [k |-> "open", v |-> name]
Close(name) == [k |-> "close", v |-> name]
Text(s) == [k |-> "text", v |-> s]
BadBytes == [k |-> "bytes", v |-> "ff"]

\* content.decode("utf-8", errors="replace") of a body
DecodeBody(body) ==
    [i \in 1..Len(body) |-> IF body[i].k = "bytes" THEN Text("U+FFFD") ELSE body[i]]

\* the XML parser on the tokens from index i, inside the open elements of
\* stack: TRUE iff the body is one well-formed element and nothing else
RECURSIVE XmlScan(_, _, _)
XmlScan(body, i, stack) ==
    IF i > Len(body) THEN FALSE
    ELSE LET tok == body[i]
         IN  CASE tok.k = "open" -> XmlScan(body, i + 1, <<tok.v>> \o stack)
               [] tok.k = "close" ->
                    IF stack = <<>> \/ Head(stack) # tok.v THEN FALSE
                    ELSE IF Len(stack) = 1 THEN i = Len(body)
                    ELSE XmlScan(body, i + 1, Tail(stack))
               [] tok.k = "text" ->
                    IF stack = <<>> THEN FALSE ELSE XmlScan(body, i + 1, stack)
               [] OTHER -> FALSE

\* a parser that accepts every body
ParseXml_lenient(body) == Some(body)

\* ET.parse(BytesIO(content)).getroot(): the root, or None when parsing raises
ParseXml(body) == IF XmlScan(body, 1, <<>>) THEN Some(body) ELSE None

\* root.find(".//name"): the index of the first descendant with that tag
\* (the root itself is not searched), or 0
RECURSIVE FindFrom(_, _, _)
FindFrom(root, name, i) ==
    IF i > Len(root) THEN 0
    ELSE IF root[i].k = "open" /\ root[i].v = name THEN i
    ELSE FindFrom(root, name, i + 1)

\* elem.text of the element opened at index i: None for an empty element
ElemText(root, i) ==
    IF root[i + 1].k = "text" THEN Some(root[i + 1].v) ELSE None

\* "elem = root.find(...); if elem is not None: x = elem.text", x None before;
\* with root None the parse has raised and x stays None
FindText(root, name) ==
    IF IsNone(root) THEN None
    ELSE LET i == FindFrom(Val(root), name, 2)
         IN  IF i = 0 THEN None ELSE ElemText(Val(root), i)

BlobErrorOf(error_type, url_type, response, message, extra_info) ==
    [variant |-> error_type, url_type |-> url_type,
     status_code |-> response.status, message |-> message,
     extra_info |-> extra_info, raw_data |-> DecodeBody(response.body)]

\* the detail element is captured whatever the status
parse_azure_error_detail_always(response) ==
    LET root == ParseXml(response.body)
        message == FindText(root, "Message")
        code == FindText(root, "Code")
        detail == FindText(root, "AuthenticationErrorDetail")
        st == response.status
    IN  IF st = 404
        THEN BlobErrorOf(IF ~IsNone(code) /\ code = Some("ContainerNotFound")
                         THEN "ContainerNotFoundError" ELSE "BlobNotFoundError",
                         "AZURE", response, message, detail)
        ELSE IF st = 403
        THEN BlobErrorOf("AuthenticationFailedError", "AZURE", response, message, detail)
        ELSE IF st >= 500
        THEN BlobErrorOf("RetryableBlobError", "AZURE", response, message, detail)
        ELSE BlobErrorOf("NonRetryableBlobError", "AZURE", response, message, detail)

parse_azure_error(response) ==
    LET root == ParseXml(response.body)
        message == FindText(root, "Message")
        code == FindText(root, "Code")
        st == response.status
    IN  IF st = 404
        THEN BlobErrorOf(IF ~IsNone(code) /\ code = Some("ContainerNotFound")
                         THEN "ContainerNotFoundError" ELSE "BlobNotFoundError",
                         "AZURE", response, message, None)
        ELSE IF st = 403
        THEN BlobErrorOf("AuthenticationFailedError", "AZURE", response, message,
                         FindText(root, "AuthenticationErrorDetail"))
        ELSE IF st >= 500
        THEN BlobErrorOf("RetryableBlobError", "AZURE", response, message, None)
        ELSE BlobErrorOf("NonRetryableBlobError", "AZURE", response, message, None)

\* the body's Code is not consulted
parse_s3_error_status_only(response) ==
    LET root == ParseXml(response.body)
        message == FindText(root, "Message")
        st == response.status
    IN  BlobErrorOf(IF st = 404 THEN "BlobNotFoundError"
                    ELSE IF st = 403 THEN "AuthenticationFailedError"
                    ELSE IF st >= 500 THEN "RetryableBlobError"
                    ELSE "NonRetryableBlobError",
                    "S3", response, message, None)

\* "status_code > 500" in place of "status_code >= 500"
parse_s3_error_above_500(response) ==
    LET root == ParseXml(response.body)
        code == FindText(root, "Code")
        message == FindText(root, "Message")
        st == response.status
    IN  IF st = 404
        THEN BlobErrorOf(IF code = Some("NoSuchBucket")
                         THEN "ContainerNotFoundError" ELSE "BlobNotFoundError",
                         "S3", response, message, None)
        ELSE IF st = 403
        THEN BlobErrorOf("AuthenticationFailedError", "S3", response, message, code)
        ELSE IF st > 500
        THEN BlobErrorOf("RetryableBlobError", "S3", response, message, None)
        ELSE BlobErrorOf("NonRetryableBlobError", "S3", response, message, None)

parse_s3_error(response) ==
    LET root == ParseXml(response.body)
        code == FindText(root, "Code")
        message == FindText(root, "Message")
        st == response.status
    IN  IF st = 404
        THEN BlobErrorOf(IF code = Some("NoSuchBucket")
                         THEN "ContainerNotFoundError" ELSE "BlobNotFoundError",
                         "S3", response, message, None)
        ELSE IF st = 403
        THEN BlobErrorOf("AuthenticationFailedError", "S3", response, message, code)
        ELSE IF st >= 500
        THEN BlobErrorOf("RetryableBlobError", "S3", response, message, None)
        ELSE BlobErrorOf("NonRetryableBlobError", "S3", response, message, None)

\* the body is parsed as an S3 error document for every provider
parse_generic_error_with_body(response, url_type) ==
    [parse_s3_error(response) EXCEPT !.url_type = url_type, !.message = None,
                                     !.extra_info = None]

parse_generic_error(response, url_type) ==
    LET st == response.status
    IN  BlobErrorOf(IF st = 403 THEN "AuthenticationFailedError"
                    ELSE IF st = 404 THEN "BlobNotFoundError"
                    ELSE IF st >= 500 THEN "RetryableBlobError"
                    ELSE "NonRetryableBlobError",
                    url_type, response, None, None)

parse_error(response, url_type) ==
    IF url_type = "AZURE" THEN parse_azure_error(response)
    ELSE IF url_type = "S3" THEN parse_s3_error(response)
    ELSE parse_generic_error(response, url_type)

(***************************************************************************)
(* The blobs the server may hold.                                          *)
(***************************************************************************)
\* 'A', U+00E9 (2 bytes), U+20AC (3 bytes), U+1F600 (4 bytes)
CodePoints == {65, 233, 8364, 128512}

MultiByte == CodePoints \ {65}

\* the UTF-8 encoding of one code point
EncodeCp(cp) ==
    IF cp < 128 THEN <<cp>>
    ELSE IF cp < 2048 THEN <<192 + (cp \div 64), 128 + (cp % 64)>>
    ELSE IF cp < 65536
    THEN <<224 + (cp \div 4096), 128 + ((cp \div 64) % 64), 128 + (cp % 64)>>
    ELSE <<240 + (cp \div 262144), 128 + ((cp \div 4096) % 64),
           128 + ((cp \div 64) % 64), 128 + (cp % 64)>>

RECURSIVE Encode(_)
Encode(text) ==
    IF text = <<>> THEN <<>> ELSE EncodeCp(Head(text)) \o Encode(Tail(text))

Pad(k) == [j \in 1..k |-> 65]

\* valid UTF-8: one to MaxCps multi-byte code points, bare or with ASCII
\* padding on both sides
ValidTexts ==
    {Pad(k) \o mid \o Pad(k) :
        k \in {0, MaxPad},
        mid \in UNION {[1..n -> MultiByte] : n \in 1..MaxCps}}

ValidBlobs == {Encode(t) : t \in ValidTexts}

\* 'A', a continuation byte, a 4-byte lead
RawBytes == {65, 159, 240}

RawBlobs == UNION {[1..n -> RawBytes] : n \in 1..MaxRawLen}

Blobs == ValidBlobs \cup RawBlobs

(***************************************************************************)
(* The HTTP server: it honours Range, and may answer any request with a    *)
(* failure status.                                                         *)
(***************************************************************************)
FailStatuses == {404, 500}

\* how the server reports sizes in a response's headers
HeaderModes == {"both", "range_only", "length_only", "neither"}

Min(a, b) == IF a < b THEN a ELSE b

\* the bounds <<s, e>> of a Range header text "bytes=s-e" / "bytes=s-"
RangeBounds(t) ==
    LET rest == SubSeq(t, Len(BytesEq) + 1, Len(t))
        dash == CHOOSE k \in 1..Len(rest) : rest[k] = "-" /\ \A j \in 1..(k - 1) : rest[j] # "-"
        s == SubSeq(rest, 1, dash - 1)
        e == SubSeq(rest, dash + 1, Len(rest))
    IN  [start |-> DigitsValue(s, 0),
         end |-> IF e = <<>> THEN None ELSE Some(DigitsValue(e, 0))]

SizeHeaders(mode, first, last, total) ==
    [content_range |->
        IF mode \in {"both", "range_only"}
        THEN Some(<<"b", "y", "t", "e", "s", " ">> \o IntToText(first) \o <<"-">>
                    \o IntToText(last) \o <<"/">> \o IntToText(total))
        ELSE None,
     content_length |->
        IF mode \in {"both", "length_only"} THEN Some(IntToText(last - first + 1))
        ELSE None]

\* the successful answer to a request on content b
Served(b, req, mode) ==
    IF IsNone(req.range)
    THEN [status |-> 200, body |-> b,
          headers |-> [content_range |-> None,
                       content_length |-> IF mode \in {"both", "length_only"}
                                          THEN Some(IntToText(Len(b))) ELSE None]]
    ELSE LET r == RangeBounds(Val(req.range))
             last == IF IsNone(r.end) THEN Len(b) - 1 ELSE Min(Val(r.end), Len(b) - 1)
         IN  IF r.start >= Len(b) \/ last < r.start
             THEN [status |-> 416, body |-> <<>>,
                   headers |-> [content_range |-> None, content_length |-> None]]
             ELSE [status |-> 206, body |-> SubSeq(b, r.start + 1, last + 1),
                   headers |-> SizeHeaders(mode, r.start, last, Len(b))]

Failed(status) ==
    [status |-> status, body |-> <<>>,
     headers |-> [content_range |-> None, content_length |-> None]]

\* every answer the server may give; only a size lookup reads the headers
ServerResponses(b, req) ==
    {Served(b, req, mode) :
        mode \in IF req.purpose \in {"stat", "stat_op"} THEN HeaderModes ELSE {"both"}}
    \cup {Failed(st) : st \in FailStatuses}

\* a test of success that lets redirections through
is_success_below_400(resp) == resp.status >= 200 /\ resp.status < 400

\* httpx.Response.is_success
is_success(resp) == resp.status >= 200 /\ resp.status <= 299

(***************************************************************************)
(* str.splitlines                                                          *)
(***************************************************************************)
LineBreaks == {10, 11, 12, 13, 28, 29, 30, 133, 8232, 8233}

RECURSIVE SplitLinesFrom(_, _, _)
SplitLinesFrom(t, cur, acc) ==
    IF t = <<>> THEN (IF cur = <<>> THEN acc ELSE Append(acc, cur))
    ELSE IF Head(t) = 13 /\ Len(t) >= 2 /\ t[2] = 10
    THEN SplitLinesFrom(SubSeq(t, 3, Len(t)), <<>>, Append(acc, cur))
    ELSE IF Head(t) \in LineBreaks
    THEN SplitLinesFrom(Tail(t), <<>>, Append(acc, cur))
    ELSE SplitLinesFrom(Tail(t), Append(cur, Head(t)), acc)

splitlines(t) == SplitLinesFrom(t, <<>>, <<>>)

(***************************************************************************)
(* The state: one blob handle (UrlBlob / SyncUrlBlob) running one          *)
(* operation against the server.                                           *)
(***************************************************************************)
VARIABLES
    blob,               \* the content the server holds
    handle,             \* the handle's url and url_type, or None before __init__
    failure,            \* the failed response validate_response raised for, or None
    pc,                 \* "idle", "await", "grow_loop", "shrink_loop", "done"
    call,               \* the operation called and its arguments
    outstanding,        \* the request awaiting its response, or None
    requests,           \* every request issued on the client, in order
    range_start,        \* locals of the text accessors
    range_end,
    fragment,
    original_fragment,
    left_extension,
    right_extension,
    blob_stats,
    last_decode,        \* the outcome of the latest strict decode attempt
    result,             \* what the operation returned or raised
    size_result,        \* what an accessor of the returned UrlBlobStats gave
    responses,          \* the status of every response received, in order
    split,              \* two fragments of one byte string being shrunk
    attempts,           \* strict decode attempts made by the text accessor so far
    twin                \* the finished asynchronous run a synchronous run is compared with

vars == <<blob, handle, failure, pc, call, outstanding, requests, range_start, range_end, fragment,
          original_fragment, left_extension, right_extension, blob_stats,
          last_decode, result, size_result, responses, split, attempts, twin>>

locals == <<range_start, range_end, fragment, original_fragment, left_extension,
            right_extension, blob_stats, last_decode>>

ByteOps == {"get", "get_lines", "stream", "stream_lines"}
GrowOps == {"get_valid_string", "grow_to_valid_string"}
TextOps == GrowOps \cup {"shrink_to_valid_string"}

\* the methods of UrlBlob (async) and SyncUrlBlob (sync)
Methods ==
    [async |-> {"stat", "get", "get_lines", "get_valid_string", "stream", "stream_lines"},
     sync |-> {"stat", "get", "get_lines", "grow_to_valid_string",
               "shrink_to_valid_string"}]

NoCall == [api |-> "", op |-> "", byte_range |-> None, start |-> None, end |-> None]
NoResult == [kind |-> "none", value |-> <<>>, via |-> ""]
NoSplit == [text |-> <<>>, at |-> 0, left |-> <<>>, right |-> <<>>, A |-> None, B |-> None]
NoDecode == [ok |-> TRUE, text |-> <<>>, reason |-> "", start |-> 0, end |-> 0]

\* a URL that matches no provider pattern
PlainUrl == <<"h", "t", "t", "p", ":", "/", "/", "h", "/", "b">>

\* the handles made for a blob: UrlBlob(url, client, url_type), the url_type
\* given explicitly for the shorter blobs
Handles(b) ==
    {Some(NewHandle(PlainUrl, t)) :
        t \in IF Len(b) <= MaxTaggedLen THEN Opt(UrlTypes) ELSE {None}}

Init ==
    /\ blob \in Blobs
    /\ handle \in Handles(blob)
    /\ failure = None
    /\ pc = "idle"
    /\ call = NoCall
    /\ outstanding = None
    /\ requests = <<>>
    /\ range_start = None
    /\ range_end = None
    /\ fragment = <<>>
    /\ original_fragment = <<>>
    /\ left_extension = 0
    /\ right_extension = 0
    /\ blob_stats = None
    /\ last_decode = NoDecode
    /\ result = NoResult
    /\ size_result = None
    /\ responses = <<>>
    /\ split = NoSplit
    /\ attempts = 0
    /\ twin = None

(***************************************************************************)
(* Arguments the caller may pass.                                          *)
(***************************************************************************)
\* range(a, b) objects
SmallRanges == {[start |-> a, stop |-> b] : a \in 0..MaxByteArg, b \in 1..(MaxByteArg + 1)}

RangeObjects == {r \in SmallRanges : r.start < r.stop}

\* arguments of the byte-returning operations, conflicting ones included
ByteArgs ==
    {[byte_range |-> br, start |-> s, end |-> e] :
        br \in Opt(RangeObjects), s \in Opt(0..MaxByteArg), e \in Opt(0..MaxByteArg)}

\* explicit start/end over the whole blob and, on a short blob, the small
\* range objects with or without conflicting start/end
TextArgs(b) ==
    {a \in [byte_range : {None}, start : Opt(0..(Len(b) - 1)), end : Opt(0..(Len(b) - 1))] :
        IsNone(a.start) \/ IsNone(a.end) \/ Val(a.start) <= Val(a.end)}
    \cup {a \in ByteArgs : ~IsNone(a.byte_range) /\ Len(b) <= MaxByteArg + 1}

Conflicting(a) == ~IsNone(a.byte_range) /\ (~IsNone(a.start) \/ ~IsNone(a.end))

(***************************************************************************)
(* Pieces of the operations.                                               *)
(***************************************************************************)
\* self._client.get(self._url, headers=headers)
Issue(range, purpose) ==
    LET req == [method |-> "GET", range |-> range, purpose |-> purpose]
    IN  /\ outstanding' = Some(req)
        /\ requests' = Append(requests, req)
        /\ pc' = "await"

\* return or raise
Finish(kind, value, via) ==
    /\ result' = [kind |-> kind, value |-> value, via |-> via]
    /\ outstanding' = None
    /\ pc' = "done"

\* a failure classified by the status code alone, whatever the handle's tag
RaiseBlobError_untagged(resp) ==
    Finish("BlobError", parse_generic_error(resp, "GENERIC"), "validate_response")

\* validate_response raising parse_error(response, url_type)
RaiseBlobError(resp) ==
    Finish("BlobError", parse_error(resp, Val(handle).url_type), "validate_response")

\* a fallback that decodes the extended fragment instead of the original one
Fallback_fragment == DecodeReplace(fragment)

\* a synchronous fallback that decodes the extended fragment
Fallback_sync_fragment ==
    IF call.api = "sync" THEN DecodeReplace(fragment) ELSE DecodeReplace(original_fragment)

\* "return original_fragment.decode('utf-8', errors='replace')" after a break
Fallback_original == DecodeReplace(original_fragment)

Fallback == Finish("str", Fallback_original, "fallback")

\* an extension that requests the byte at pos and the one after it together
GetOneByte_prefetch(pos, purpose) ==
    LET req == [method |-> "GET", purpose |-> purpose,
                range |-> build_get_headers(None, Some(pos), Some(pos)).Range]
        ahead == [method |-> "GET", purpose |-> purpose,
                  range |-> build_get_headers(None, Some(pos + 1), Some(pos + 1)).Range]
    IN  /\ outstanding' = Some(req)
        /\ requests' = requests \o <<req, ahead>>
        /\ pc' = "await"

\* an extension that asks for the byte at pos and the one after it
GetOneByte_two_bytes(pos, purpose) ==
    Issue(build_get_headers(None, Some(pos), Some(pos + 1)).Range, purpose)

\* self.get(start=pos, end=pos)
GetOneByte(pos, purpose) ==
    Issue(build_get_headers(None, Some(pos), Some(pos)).Range, purpose)

(***************************************************************************)
(* Calls: the code of an operation up to its first request.                *)
(***************************************************************************)
\* get / get_lines / stream / stream_lines: build_get_headers, then the GET
CallBytes ==
    /\ pc = "idle"
    /\ Len(blob) <= MaxByteArg
    /\ \E api \in {"async", "sync"}, op \in ByteOps, a \in ByteArgs :
        /\ op \in Methods[api]
        /\ call' = [api |-> api, op |-> op, byte_range |-> a.byte_range,
                    start |-> a.start, end |-> a.end]
        /\ LET headers == build_get_headers(a.byte_range, a.start, a.end)
           IN  IF headers.raised
               THEN Finish("ValueError", <<>>, "build_get_headers") /\ UNCHANGED requests
               ELSE Issue(headers.Range, "get") /\ UNCHANGED result
    /\ UNCHANGED <<blob, handle, failure, locals, size_result, responses, split, attempts, twin>>

\* a stat that sends the GET without a Range
CallStat_unranged ==
    /\ pc = "idle"
    /\ \E api \in {"async", "sync"} :
        call' = [api |-> api, op |-> "stat", byte_range |-> None,
                 start |-> None, end |-> None]
    /\ Issue(build_get_headers(None, None, None).Range, "stat_op")
    /\ UNCHANGED <<blob, handle, failure, locals, result, size_result, responses, split, attempts, twin>>

\* stat: "headers = build_get_headers(None, 0, 0)", then the GET
CallStat ==
    /\ pc = "idle"
    /\ \E api \in {"async", "sync"} :
        call' = [api |-> api, op |-> "stat", byte_range |-> None,
                 start |-> None, end |-> None]
    /\ Issue(build_get_headers(None, Some(0), Some(0)).Range, "stat_op")
    /\ UNCHANGED <<blob, handle, failure, locals, result, size_result, responses, split, attempts, twin>>

\* get_valid_string / grow_to_valid_string / shrink_to_valid_string up to
\* the first self.get
CallTextAs(api, op, a) ==
    /\ pc = "idle"
    /\ op \in Methods[api]
    /\ call' = [api |-> api, op |-> op, byte_range |-> a.byte_range,
                start |-> a.start, end |-> a.end]
    /\ IF IsNone(a.byte_range) /\ IsNone(a.start) /\ IsNone(a.end)
       THEN /\ Issue(build_get_headers(None, None, None).Range, "whole")
            /\ UNCHANGED <<range_start, range_end>>
       ELSE LET rs == IF ~IsNone(a.byte_range)
                      THEN Some(Val(a.byte_range).start) ELSE a.start
                re == IF ~IsNone(a.byte_range)
                      THEN Some(Val(a.byte_range).stop - 1) ELSE a.end
            IN  /\ range_start' = rs
                /\ range_end' = re
                /\ Issue(build_get_headers(None, rs, re).Range, "initial")
    /\ UNCHANGED <<blob, handle, failure, fragment, original_fragment, left_extension,
                   right_extension, blob_stats, last_decode, result, size_result,
                   responses, split, attempts, twin>>

\* a text accessor called with any of the arguments the caller may pass
CallText ==
    /\ pc = "idle"
    /\ \E api \in {"async", "sync"}, op \in TextOps, a \in TextArgs(blob) :
            CallTextAs(api, op, a)

Awaiting(purpose) ==
    pc = "await" /\ ~IsNone(outstanding) /\ Val(outstanding).purpose = purpose

\* the bytes put by put_lines: b"\n".join(lines)
RECURSIVE JoinLines(_)
JoinLines(lines) ==
    IF lines = <<>> THEN <<>>
    ELSE IF Len(lines) = 1 THEN Head(lines)
    ELSE Head(lines) \o <<10>> \o JoinLines(Tail(lines))

\* what the caller may put: put(content) and put_lines(lines)
PutContents == [put |-> {<<>>, <<66>>}, put_lines |-> {JoinLines(<<<<66>>, <<67>>>>)}]

\* content_type arguments, the empty string included
ContentTypes == Opt({"", "text/plain"})

\* put / put_lines: build_put_headers, then the PUT
CallPut ==
    /\ pc = "idle"
    /\ Len(blob) <= MaxByteArg
    /\ \E api \in {"async", "sync"}, op \in {"put", "put_lines"}, ct \in ContentTypes :
        \E content \in PutContents[op] :
            LET req == [method |-> "PUT", range |-> None, purpose |-> "put",
                        headers |-> build_put_headers(Val(handle).url_type, ct),
                        content |-> content]
            IN  /\ call' = [api |-> api, op |-> op, byte_range |-> None,
                            start |-> None, end |-> None]
                /\ outstanding' = Some(req)
                /\ requests' = Append(requests, req)
                /\ pc' = "await"
    /\ UNCHANGED <<blob, handle, failure, locals, result, size_result, responses, split, attempts, twin>>

\* the answers to a PUT: stored, or a failure status
PutResponses == {[status |-> 201, body |-> <<>>,
                  headers |-> [content_range |-> None, content_length |-> None]]}
                \cup {Failed(st) : st \in FailStatuses}

\* "response = self._client.put(...); validate_response(response, url_type)"
PutResponse ==
    /\ Awaiting("put")
    /\ \E resp \in PutResponses :
        /\ responses' = Append(responses, resp.status)
        /\ failure' = IF is_success(resp) THEN failure ELSE Some(resp)
        /\ IF ~is_success(resp) THEN RaiseBlobError(resp) /\ UNCHANGED blob
           ELSE /\ blob' = Val(outstanding).content
                /\ Finish("None", <<>>, "return")
    /\ UNCHANGED <<handle, call, requests, locals, size_result, split, attempts, twin>>

(***************************************************************************)
(* Responses of the byte-returning operations and of stat.                 *)
(***************************************************************************)
\* what get / stream / get_lines / stream_lines make of a successful body
ByteResult(op, body) ==
    CASE op = "get" -> [kind |-> "bytes", value |-> body, via |-> "return"]
      [] op = "stream" -> [kind |-> "chunks", value |-> body, via |-> "return"]
      [] op = "get_lines" ->
            LET d == DecodeStrict(body)
            IN  IF d.ok THEN [kind |-> "lines", value |-> splitlines(d.text), via |-> "return"]
                ELSE [kind |-> "UnicodeDecodeError", value |-> <<>>, via |-> "decode"]
      [] OTHER -> [kind |-> "lines", value |-> splitlines(DecodeReplace(body)),
                   via |-> "return"]

ByteResponse ==
    /\ Awaiting("get")
    /\ \E resp \in ServerResponses(blob, Val(outstanding)) :
        /\ responses' = Append(responses, resp.status)
        /\ failure' = IF is_success(resp) THEN failure ELSE Some(resp)
        /\ IF ~is_success(resp) THEN RaiseBlobError(resp)
           ELSE LET r == ByteResult(call.op, resp.body)
                IN  Finish(r.kind, r.value, r.via)
    /\ UNCHANGED <<blob, handle, call, requests, locals, size_result, split, attempts, twin>>

StatResponse ==
    /\ Awaiting("stat_op")
    /\ \E resp \in ServerResponses(blob, Val(outstanding)) :
        /\ responses' = Append(responses, resp.status)
        /\ failure' = IF is_success(resp) THEN failure ELSE Some(resp)
        /\ IF ~is_success(resp) THEN RaiseBlobError(resp)
           ELSE Finish("stats", resp.headers, "return")
    /\ UNCHANGED <<blob, handle, call, requests, locals, size_result, split, attempts, twin>>

\* the caller reads the size off the UrlBlobStats that stat returned
StatsAccess ==
    /\ pc = "done"
    /\ result.kind = "stats"
    /\ IsNone(size_result)
    /\ \E accessor \in {"size", "size_or_none"} :
        size_result' = Some([accessor |-> accessor,
                             outcome |-> IF accessor = "size" THEN size(result.value)
                                         ELSE size_or_none(result.value)])
    /\ UNCHANGED <<blob, handle, failure, pc, call, outstanding, requests, locals, result, responses, split, attempts, twin>>

(***************************************************************************)
(* The text accessors.                                                     *)
(***************************************************************************)
\* no range at all: "content = self.get(); return content.decode(errors='replace')"
WholeResponse ==
    /\ Awaiting("whole")
    /\ \E resp \in ServerResponses(blob, Val(outstanding)) :
        /\ responses' = Append(responses, resp.status)
        /\ failure' = IF is_success(resp) THEN failure ELSE Some(resp)
        /\ IF ~is_success(resp) THEN RaiseBlobError(resp)
           ELSE Finish("str", DecodeReplace(resp.body), "whole")
    /\ UNCHANGED <<blob, handle, call, requests, locals, size_result, split, attempts, twin>>

\* "fragment = self.get(start=range_start, end=range_end)" and the locals
InitialResponse ==
    /\ Awaiting("initial")
    /\ \E resp \in ServerResponses(blob, Val(outstanding)) :
        /\ responses' = Append(responses, resp.status)
        /\ failure' = IF is_success(resp) THEN failure ELSE Some(resp)
        /\ IF ~is_success(resp)
           THEN /\ RaiseBlobError(resp)
                /\ UNCHANGED <<fragment, original_fragment>>
           ELSE /\ fragment' = resp.body
                /\ original_fragment' = resp.body
                /\ outstanding' = None
                /\ pc' = IF call.op \in GrowOps THEN "grow_loop" ELSE "shrink_loop"
                /\ UNCHANGED result
    /\ left_extension' = 0
    /\ right_extension' = 0
    /\ blob_stats' = None
    /\ UNCHANGED <<blob, handle, call, requests, range_start, range_end, last_decode,
                   size_result, split, attempts, twin>>

\* e.reason.startswith("invalid start") / ("unexpected end")
InvalidStart(d) == d.reason = "invalid start byte"

\* a test of the reason that every failure passes
UnexpectedEnd_any_reason(d) == ~d.ok

UnexpectedEnd(d) == d.reason = "unexpected end of data"

\* the left branch without its "left_extension >= 4" test
LeftMayExtend_uncapped(rs, le) ==
    ~(IsNone(rs) \/ le > Val(rs))

\* the left branch goes on to fetch one more byte
LeftMayExtend(rs, le) ==
    ~(IsNone(rs) \/ le > Val(rs) \/ le >= MaxExtension)

\* a right branch that breaks to the fallback when the size is not known
RightDecision_swallow(re, rext, stats) ==
    IF IsNone(re) THEN [kind |-> "break", pos |-> 0]
    ELSE LET sz == size(stats)
         IN  IF sz.kind = "ValueError" THEN [kind |-> "break", pos |-> 0]
             ELSE IF Val(re) + rext + 1 >= sz.value \/ rext >= MaxExtension
             THEN [kind |-> "break", pos |-> 0]
             ELSE [kind |-> "fetch", pos |-> Val(re) + rext]

\* a right branch without the test against the blob's size
RightDecision_past_end(re, rext, stats) ==
    IF IsNone(re) THEN [kind |-> "break", pos |-> 0]
    ELSE LET sz == size(stats)
         IN  IF sz.kind = "ValueError" THEN [kind |-> "ValueError", pos |-> 0]
             ELSE IF rext >= MaxExtension
             THEN [kind |-> "break", pos |-> 0]
             ELSE [kind |-> "fetch", pos |-> Val(re) + rext]

\* the right branch with a test that lets the blob's last byte be fetched
RightDecision_to_last_byte(re, rext, stats) ==
    IF IsNone(re) THEN [kind |-> "break", pos |-> 0]
    ELSE LET sz == size(stats)
         IN  IF sz.kind = "ValueError" THEN [kind |-> "ValueError", pos |-> 0]
             ELSE IF Val(re) + rext >= sz.value \/ rext >= MaxExtension
             THEN [kind |-> "break", pos |-> 0]
             ELSE [kind |-> "fetch", pos |-> Val(re) + rext]

\* the right branch, once blob_stats is known: "break", a raise of size(),
\* or the offset of the byte to fetch
RightDecision(re, rext, stats) ==
    IF IsNone(re) THEN [kind |-> "break", pos |-> 0]
    ELSE LET sz == size(stats)
         IN  IF sz.kind = "ValueError" THEN [kind |-> "ValueError", pos |-> 0]
             ELSE IF Val(re) + rext + 1 >= sz.value \/ rext >= MaxExtension
             THEN [kind |-> "break", pos |-> 0]
             ELSE [kind |-> "fetch", pos |-> Val(re) + rext]

\* what follows "blob_stats = blob_stats or self.stat()"
RightContinue(rext, stats) ==
    LET dec == RightDecision(range_end, rext, stats)
    IN  CASE dec.kind = "break" -> Fallback /\ UNCHANGED requests
          [] dec.kind = "ValueError" ->
                Finish("ValueError", <<>>, "size") /\ UNCHANGED requests
          [] OTHER -> GetOneByte(dec.pos, "right") /\ UNCHANGED result

\* one pass of grow's "while True": the check of the counters, the decode
\* attempt and the except branch up to its next request
GrowIter ==
    /\ pc = "grow_loop"
    /\ IF left_extension >= MaxExtension \/ right_extension >= MaxExtension
       THEN /\ Fallback
            /\ UNCHANGED <<requests, fragment, left_extension, right_extension, last_decode,
                           attempts>>
       ELSE LET d == DecodeStrict(fragment)
            IN  /\ last_decode' = d
                /\ attempts' = attempts + 1
                /\ UNCHANGED fragment
                /\ IF d.ok
                   THEN /\ Finish("str", d.text, "decode")
                        /\ UNCHANGED <<requests, left_extension, right_extension>>
                   ELSE IF d.start = 0 /\ InvalidStart(d)
                   THEN /\ left_extension' = left_extension + 1
                        /\ UNCHANGED right_extension
                        /\ IF LeftMayExtend(range_start, left_extension + 1)
                           THEN /\ GetOneByte(Val(range_start) - (left_extension + 1), "left")
                                /\ UNCHANGED result
                           ELSE Fallback /\ UNCHANGED requests
                   ELSE IF d.end = Len(fragment) /\ UnexpectedEnd(d)
                   THEN /\ right_extension' = right_extension + 1
                        /\ UNCHANGED left_extension
                        /\ IF IsNone(blob_stats)
                           THEN /\ Issue(build_get_headers(None, Some(0), Some(0)).Range, "stat")
                                /\ UNCHANGED result
                           ELSE RightContinue(right_extension + 1, Val(blob_stats))
                   ELSE /\ Fallback
                        /\ UNCHANGED <<requests, left_extension, right_extension>>
    /\ UNCHANGED <<blob, handle, failure, call, range_start, range_end, original_fragment, blob_stats,
                   size_result, responses, split, twin>>

\* "left_byte = self.get(start=pos, end=pos); fragment = left_byte + fragment"
GrowLeftResponse ==
    /\ Awaiting("left")
    /\ \E resp \in ServerResponses(blob, Val(outstanding)) :
        /\ responses' = Append(responses, resp.status)
        /\ failure' = IF is_success(resp) THEN failure ELSE Some(resp)
        /\ IF ~is_success(resp) THEN RaiseBlobError(resp) /\ UNCHANGED fragment
           ELSE /\ fragment' = resp.body \o fragment
                /\ outstanding' = None
                /\ pc' = "grow_loop"
                /\ UNCHANGED result
    /\ UNCHANGED <<blob, handle, call, requests, range_start, range_end, original_fragment,
                   left_extension, right_extension, blob_stats, last_decode,
                   size_result, split, attempts, twin>>

\* a size lookup whose answer is used and not kept
GrowStatResponse_unmemoized ==
    /\ Awaiting("stat")
    /\ \E resp \in ServerResponses(blob, Val(outstanding)) :
        /\ responses' = Append(responses, resp.status)
        /\ failure' = IF is_success(resp) THEN failure ELSE Some(resp)
        /\ IF ~is_success(resp)
           THEN RaiseBlobError(resp) /\ UNCHANGED requests
           ELSE RightContinue(right_extension, resp.headers)
    /\ UNCHANGED <<blob, handle, call, range_start, range_end, fragment, original_fragment,
                   left_extension, right_extension, blob_stats, last_decode, size_result,
                   split, attempts, twin>>

\* the lazy "self.stat()" of the right branch, then the rest of the branch
GrowStatResponse ==
    /\ Awaiting("stat")
    /\ \E resp \in ServerResponses(blob, Val(outstanding)) :
        /\ responses' = Append(responses, resp.status)
        /\ failure' = IF is_success(resp) THEN failure ELSE Some(resp)
        /\ IF ~is_success(resp)
           THEN RaiseBlobError(resp) /\ UNCHANGED <<requests, blob_stats>>
           ELSE /\ blob_stats' = Some(resp.headers)
                /\ RightContinue(right_extension, resp.headers)
    /\ UNCHANGED <<blob, handle, call, range_start, range_end, fragment, original_fragment,
                   left_extension, right_extension, last_decode, size_result, split, attempts, twin>>

\* "right_byte = self.get(start=pos, end=pos); fragment += right_byte"
GrowRightResponse ==
    /\ Awaiting("right")
    /\ \E resp \in ServerResponses(blob, Val(outstanding)) :
        /\ responses' = Append(responses, resp.status)
        /\ failure' = IF is_success(resp) THEN failure ELSE Some(resp)
        /\ IF ~is_success(resp) THEN RaiseBlobError(resp) /\ UNCHANGED fragment
           ELSE /\ fragment' = fragment \o resp.body
                /\ outstanding' = None
                /\ pc' = "grow_loop"
                /\ UNCHANGED result
    /\ UNCHANGED <<blob, handle, call, requests, range_start, range_end, original_fragment,
                   left_extension, right_extension, blob_stats, last_decode,
                   size_result, split, attempts, twin>>

\* a shrink pass that does not trim a failure at the end of the fragment
ShrinkStep_no_end_trim(frag) ==
    LET d == DecodeStrict(frag)
    IN  IF d.ok THEN [done |-> TRUE, fragment |-> frag, text |-> d.text, via |-> "decode"]
        ELSE IF d.start = 0
        THEN [done |-> FALSE, fragment |-> SubSeq(frag, d.end + 1, Len(frag)),
              text |-> <<>>, via |-> ""]
        ELSE [done |-> TRUE, fragment |-> frag, text |-> DecodeReplace(frag),
              via |-> "fallback"]

\* a shrink pass whose fallback decodes the fragment as it was first fetched
ShrinkStep_fallback_original(frag) ==
    LET d == DecodeStrict(frag)
    IN  IF d.ok THEN [done |-> TRUE, fragment |-> frag, text |-> d.text, via |-> "decode"]
        ELSE IF d.start = 0
        THEN [done |-> FALSE, fragment |-> SubSeq(frag, d.end + 1, Len(frag)),
              text |-> <<>>, via |-> ""]
        ELSE IF d.end = Len(frag)
        THEN [done |-> FALSE, fragment |-> SubSeq(frag, 1, d.start),
              text |-> <<>>, via |-> ""]
        ELSE [done |-> TRUE, fragment |-> frag, text |-> DecodeReplace(original_fragment),
              via |-> "fallback"]

\* a shrink pass that keeps the whole fragment after a failure at its start
ShrinkStep_keeps_start(frag) ==
    LET d == DecodeStrict(frag)
    IN  IF d.ok THEN [done |-> TRUE, fragment |-> frag, text |-> d.text, via |-> "decode"]
        ELSE IF d.start = 0
        THEN [done |-> FALSE, fragment |-> SubSeq(frag, d.start + 1, Len(frag)),
              text |-> <<>>, via |-> ""]
        ELSE IF d.end = Len(frag)
        THEN [done |-> FALSE, fragment |-> SubSeq(frag, 1, d.start),
              text |-> <<>>, via |-> ""]
        ELSE [done |-> TRUE, fragment |-> frag, text |-> DecodeReplace(frag),
              via |-> "fallback"]

\* one pass of shrink's "while True" on a fragment: the string returned, or
\* the trimmed fragment to retry
ShrinkStep(frag) ==
    LET d == DecodeStrict(frag)
    IN  IF d.ok THEN [done |-> TRUE, fragment |-> frag, text |-> d.text, via |-> "decode"]
        ELSE IF d.start = 0
        THEN [done |-> FALSE, fragment |-> SubSeq(frag, d.end + 1, Len(frag)),
              text |-> <<>>, via |-> ""]
        ELSE IF d.end = Len(frag)
        THEN [done |-> FALSE, fragment |-> SubSeq(frag, 1, d.start),
              text |-> <<>>, via |-> ""]
        ELSE [done |-> TRUE, fragment |-> frag, text |-> DecodeReplace(frag),
              via |-> "fallback"]

\* a shrink pass that fetches the trimmed range again
ShrinkIter_refetch ==
    /\ pc = "shrink_loop"
    /\ last_decode' = DecodeStrict(fragment)
    /\ attempts' = attempts + 1
    /\ LET st == ShrinkStep(fragment)
       IN  IF st.done
           THEN Finish("str", st.text, st.via) /\ UNCHANGED <<fragment, requests>>
           ELSE /\ fragment' = st.fragment
                /\ requests' = Append(requests,
                        [method |-> "GET", range |-> build_get_headers(None, range_start, range_end).Range,
                         purpose |-> "initial"])
                /\ UNCHANGED <<pc, outstanding, result>>
    /\ UNCHANGED <<blob, handle, failure, call, range_start, range_end, original_fragment,
                   left_extension, right_extension, blob_stats, size_result,
                   responses, split, twin>>

ShrinkIter ==
    /\ pc = "shrink_loop"
    /\ last_decode' = DecodeStrict(fragment)
    /\ attempts' = attempts + 1
    /\ LET st == ShrinkStep(fragment)
       IN  IF st.done
           THEN Finish("str", st.text, st.via) /\ UNCHANGED fragment
           ELSE /\ fragment' = st.fragment
                /\ UNCHANGED <<pc, outstanding, result>>
    /\ UNCHANGED <<blob, handle, failure, call, requests, range_start, range_end, original_fragment,
                   left_extension, right_extension, blob_stats, size_result,
                   responses, split, twin>>

Next ==
    \/ CallBytes
    \/ CallStat
    \/ CallText
    \/ CallPut
    \/ PutResponse
    \/ ByteResponse
    \/ StatResponse
    \/ StatsAccess
    \/ WholeResponse
    \/ InitialResponse
    \/ GrowIter
    \/ GrowLeftResponse
    \/ GrowStatResponse
    \/ GrowRightResponse
    \/ ShrinkIter

Spec == Init /\ [][Next]_vars

(***************************************************************************)
(* get_valid_string / grow_to_valid_string alone: the call, the answers to *)
(* its requests and the passes of its loop.                                *)
(***************************************************************************)
\* a handle made without an explicit url_type, for a blob of bounded length
InitGrow == Init /\ IsNone(Val(handle).given) /\ Len(blob) <= MaxGrowLen

GrowCall ==
    /\ pc = "idle"
    /\ \E api \in {"async", "sync"}, op \in GrowOps, a \in TextArgs(blob) :
            CallTextAs(api, op, a)

NextGrow ==
    \/ GrowCall
    \/ WholeResponse
    \/ InitialResponse
    \/ GrowIter
    \/ GrowLeftResponse
    \/ GrowStatResponse
    \/ GrowRightResponse

SpecGrow == InitGrow /\ [][NextGrow]_vars

(***************************************************************************)
(* shrink_to_valid_string alone: the call, the answer to its request and   *)
(* the passes of its loop, which runs on without waiting for anything.     *)
(***************************************************************************)
InitShrink == Init /\ IsNone(Val(handle).given) /\ Len(blob) <= MaxShrinkLen

ShrinkCall ==
    /\ pc = "idle"
    /\ \E a \in TextArgs(blob) : CallTextAs("sync", "shrink_to_valid_string", a)

NextShrink ==
    \/ ShrinkCall
    \/ WholeResponse
    \/ InitialResponse
    \/ ShrinkIter

\* the loop is sequential code of the calling thread: once entered, its next
\* pass is taken
SpecShrink == InitShrink /\ [][NextShrink]_vars /\ WF_vars(ShrinkIter)

(***************************************************************************)
(* Shrinking the two fragments s[0:i] and s[i:] of one valid UTF-8 byte    *)
(* string s: each fragment runs the loop of shrink_to_valid_string.        *)
(***************************************************************************)
\* the strings that are split: up to MaxCps + 1 code points of 1 to 4 bytes
SplitTexts == UNION {[1..n -> CodePoints] : n \in 1..(MaxCps + 1)}

InitSplit ==
    /\ \E t \in SplitTexts : \E i \in 1..(Len(Encode(t)) - 1) :
        /\ blob = Encode(t)
        /\ split = [text |-> t, at |-> i,
                    left |-> SubSeq(Encode(t), 1, i),
                    right |-> SubSeq(Encode(t), i + 1, Len(Encode(t))),
                    A |-> None, B |-> None]
    /\ pc = "split"
    /\ handle = Some(NewHandle(PlainUrl, None))
    /\ failure = None
    /\ call = NoCall
    /\ outstanding = None
    /\ requests = <<>>
    /\ range_start = None
    /\ range_end = None
    /\ fragment = <<>>
    /\ original_fragment = <<>>
    /\ left_extension = 0
    /\ right_extension = 0
    /\ blob_stats = None
    /\ last_decode = NoDecode
    /\ result = NoResult
    /\ size_result = None
    /\ responses = <<>>
    /\ attempts = 0
    /\ twin = None

\* one pass of the loop on the fragment s[0:i]
ShrinkLeftIter ==
    /\ pc = "split"
    /\ IsNone(split.A)
    /\ LET st == ShrinkStep(split.left)
       IN  split' = IF st.done THEN [split EXCEPT !.A = Some(st.text)]
                    ELSE [split EXCEPT !.left = st.fragment]
    /\ UNCHANGED <<blob, handle, failure, pc, call, outstanding, requests, locals, result,
                   size_result, responses, attempts, twin>>

\* one pass of the loop on the fragment s[i:]
ShrinkRightIter ==
    /\ pc = "split"
    /\ IsNone(split.B)
    /\ LET st == ShrinkStep(split.right)
       IN  split' = IF st.done THEN [split EXCEPT !.B = Some(st.text)]
                    ELSE [split EXCEPT !.right = st.fragment]
    /\ UNCHANGED <<blob, handle, failure, pc, call, outstanding, requests, locals, result,
                   size_result, responses, attempts, twin>>

NextSplit ==
    \/ ShrinkLeftIter
    \/ ShrinkRightIter

SpecSplit == InitSplit /\ [][NextSplit]_vars

(***************************************************************************)
(* Handles for provider URLs and the classification of failed responses:   *)
(* a handle is constructed, an operation sends its request, and the server *)
(* answers with a failure status and a body.                               *)
(***************************************************************************)
UrlS3Regional ==
    <<"h", "t", "t", "p", "s", ":", "/", "/", "b", ".", "s", "3", ".",
    "e", "u", "-", "1", ".", "a", "m", "a", "z", "o", "n", "a", "w", "s",
    ".", "c", "o", "m", "/", "k">>

UrlS3Global ==
    <<"h", "t", "t", "p", "s", ":", "/", "/", "s", "3", ".", "a", "m",
    "a", "z", "o", "n", "a", "w", "s", ".", "c", "o", "m", "/", "b", "/",
    "k">>

UrlHetzner ==
    <<"h", "t", "t", "p", "s", ":", "/", "/", "b", ".", "y", "o", "u",
    "r", "-", "o", "b", "j", "e", "c", "t", "s", "t", "o", "r", "a", "g",
    "e", "-", "c", "o", "m", "/", "k">>

UrlGcp ==
    <<"h", "t", "t", "p", "s", ":", "/", "/", "b", ".", "s", "t", "o",
    "r", "a", "g", "e", ".", "g", "o", "o", "g", "l", "e", "a", "p", "i",
    "s", ".", "c", "o", "m", "/", "k">>

UrlGcpConsole ==
    <<"h", "t", "t", "p", "s", ":", "/", "/", "s", "t", "o", "r", "a",
    "g", "e", ".", "c", "l", "o", "u", "d", ".", "g", "o", "o", "g", "l",
    "e", ".", "c", "o", "m", "/", "b">>

UrlAzure ==
    <<"h", "t", "t", "p", "s", ":", "/", "/", "a", ".", "b", "l", "o",
    "b", ".", "c", "o", "r", "e", ".", "w", "i", "n", "d", "o", "w", "s",
    ".", "n", "e", "t", "/", "c">>

UrlS3AndGcp ==
    <<"h", "t", "t", "p", "s", ":", "/", "/", "b", ".", "s", "t", "o",
    "r", "a", "g", "e", ".", "g", "o", "o", "g", "l", "e", "a", "p", "i",
    "s", ".", "c", "o", "m", "/", "s", "3", ".", "a", "m", "a", "z", "o",
    "n", "a", "w", "s", ".", "c", "o", "m">>

UrlS3AndAzure ==
    <<"h", "t", "t", "p", "s", ":", "/", "/", "a", ".", "b", "l", "o",
    "b", ".", "c", "o", "r", "e", ".", "w", "i", "n", "d", "o", "w", "s",
    ".", "n", "e", "t", "/", "s", "3", ".", "a", "m", "a", "z", "o", "n",
    "a", "w", "s", ".", "c", "o", "m">>

UrlGcpAndAzure ==
    <<"h", "t", "t", "p", "s", ":", "/", "/", "a", ".", "b", "l", "o",
    "b", ".", "c", "o", "r", "e", ".", "w", "i", "n", "d", "o", "w", "s",
    ".", "n", "e", "t", "/", "s", "t", "o", "r", "a", "g", "e", ".", "c",
    "l", "o", "u", "d", ".", "g", "o", "o", "g", "l", "e", ".", "c", "o",
    "m">>

UrlUpperRegion ==
    <<"h", "t", "t", "p", "s", ":", "/", "/", "b", ".", "s", "3", ".",
    "E", "U", ".", "a", "m", "a", "z", "o", "n", "a", "w", "s", ".", "c",
    "o", "m", "/", "k">>

UrlNoRegion ==
    <<"h", "t", "t", "p", "s", ":", "/", "/", "b", ".", "s", "3", ".",
    ".", "a", "m", "a", "z", "o", "n", "a", "w", "s", ".", "c", "o", "m",
    "/", "k">>

Urls ==
    {PlainUrl, UrlS3Regional, UrlS3Global, UrlHetzner,
     UrlGcp, UrlGcpConsole, UrlAzure,
     UrlS3AndGcp, UrlS3AndAzure, UrlGcpAndAzure,
     UrlUpperRegion, UrlNoRegion}

\* an element with its children
Elem(name, children) == <<Open(name)>> \o children \o <<Close(name)>>

S3Error(code) == Elem("Error", Elem("Code", <<Text(code)>>) \o Elem("Message", <<Text("m")>>))

\* bodies of failed responses: empty, not XML, not UTF-8, error documents of
\* S3 and Azure, malformed and truncated documents, documents without Code
ErrBodies ==
    {<<>>,
     <<Text("Not Found")>>,
     <<BadBytes>>,
     S3Error("NoSuchBucket"),
     S3Error("NoSuchKey"),
     S3Error("ContainerNotFound"),
     Elem("Error", Elem("Code", <<Text("AuthenticationFailed")>>)
                   \o Elem("AuthenticationErrorDetail", <<Text("d")>>)),
     Elem("Error", Elem("AuthenticationErrorDetail", <<>>)),
     Elem("Error", <<>>),
     Elem("Error", Elem("Code", <<>>)),
     Elem("Code", <<Text("NoSuchBucket")>>),
     Elem("Error", Elem("Detail", Elem("Code", <<Text("NoSuchKey")>>))
                   \o Elem("Code", <<Text("NoSuchBucket")>>)),
     Elem("Error", Elem("Code", Elem("x", <<>>) \o <<Text("NoSuchBucket")>>)),
     S3Error("NoSuchBucket") \o <<Text("junk")>>,
     S3Error("ContainerNotFound") \o <<BadBytes>>,
     <<Open("Error"), Open("Code"), Text("NoSuchBucket"), Close("Error")>>,
     <<Open("Error"), Open("Code"), Text("ContainerNotFound"), Close("Code")>>}

\* statuses that are not is_success
ErrStatuses == {301, 400, 403, 404, 416, 499, 500, 503}

InitErr ==
    /\ blob = <<65>>
    /\ handle = None
    /\ failure = None
    /\ pc = "new"
    /\ call = NoCall
    /\ outstanding = None
    /\ requests = <<>>
    /\ range_start = None
    /\ range_end = None
    /\ fragment = <<>>
    /\ original_fragment = <<>>
    /\ left_extension = 0
    /\ right_extension = 0
    /\ blob_stats = None
    /\ last_decode = NoDecode
    /\ result = NoResult
    /\ size_result = None
    /\ responses = <<>>
    /\ split = NoSplit
    /\ attempts = 0
    /\ twin = None

\* UrlBlob(url, client, url_type) / manager.from_url(url, url_type)
Construct ==
    /\ pc = "new"
    /\ \E url \in Urls, url_type \in Opt(UrlTypes) :
        handle' = Some(NewHandle(url, url_type))
    /\ pc' = "idle"
    /\ UNCHANGED <<blob, failure, call, outstanding, requests, locals, result,
                   size_result, responses, split, attempts, twin>>

\* the server answers the outstanding request with a failure status and a
\* body; validate_response raises parse_error(response, url_type)
ErrorResponse ==
    /\ pc = "await"
    /\ \E st \in ErrStatuses, body \in ErrBodies :
        LET resp == [status |-> st, body |-> body,
                     headers |-> [content_range |-> None, content_length |-> None]]
        IN  /\ responses' = Append(responses, st)
            /\ failure' = Some(resp)
            /\ RaiseBlobError(resp)
    /\ UNCHANGED <<blob, handle, call, requests, locals, size_result, split, attempts, twin>>

\* informational, success and redirection statuses, at and around the limits
\* of is_success
EdgeStatuses == {100, 199, 200, 204, 299, 300, 304}

\* the server answers the outstanding request with one of these statuses and
\* any body: "if not response.is_success: raise parse_error(...)", else stat
\* returns UrlBlobStats(response.headers) and put returns None
ValidateResponse ==
    /\ pc = "await"
    /\ \E st \in EdgeStatuses, body \in ErrBodies :
        LET resp == [status |-> st, body |-> body,
                     headers |-> [content_range |-> None, content_length |-> None]]
        IN  /\ responses' = Append(responses, st)
            /\ failure' = IF is_success(resp) THEN failure ELSE Some(resp)
            /\ IF ~is_success(resp) THEN RaiseBlobError(resp)
               ELSE IF call.op = "stat" THEN Finish("stats", resp.headers, "return")
               ELSE Finish("None", <<>>, "return")
    /\ UNCHANGED <<blob, handle, call, requests, locals, size_result, split, attempts, twin>>

NextErr ==
    \/ Construct
    \/ CallStat
    \/ CallPut
    \/ ErrorResponse
    \/ ValidateResponse

SpecErr == InitErr /\ [][NextErr]_vars

(***************************************************************************)
(* The asynchronous and the synchronous grow side by side: the call runs   *)
(* on UrlBlob.get_valid_string to its end, then the same call runs on      *)
(* SyncUrlBlob.grow_to_valid_string for the same blob and provider tag,    *)
(* the server answering each request as it did the first time.             *)
(***************************************************************************)
\* the blobs both runs read
InitPair == Init /\ Len(blob) <= MaxPairLen

\* the exchanges and the loop of a grow
GrowSteps ==
    \/ WholeResponse
    \/ InitialResponse
    \/ GrowIter
    \/ GrowLeftResponse
    \/ GrowStatResponse
    \/ GrowRightResponse

\* "await blob.get_valid_string(byte_range, start, end)"
AsyncCall ==
    /\ pc = "idle"
    /\ IsNone(twin)
    /\ \E a \in TextArgs(blob) : CallTextAs("async", "get_valid_string", a)

AsyncRun ==
    /\ IsNone(twin)
    /\ GrowSteps

\* the asynchronous call has ended; a SyncUrlBlob for the same url and
\* url_type is about to be given the same call
StartSync ==
    /\ IsNone(twin)
    /\ pc = "done"
    /\ twin' = Some([call |-> call, requests |-> requests, responses |-> responses,
                     blob_stats |-> blob_stats, result |-> result])
    /\ pc' = "idle"
    /\ call' = NoCall
    /\ failure' = None
    /\ outstanding' = None
    /\ requests' = <<>>
    /\ responses' = <<>>
    /\ range_start' = None
    /\ range_end' = None
    /\ fragment' = <<>>
    /\ original_fragment' = <<>>
    /\ left_extension' = 0
    /\ right_extension' = 0
    /\ blob_stats' = None
    /\ last_decode' = NoDecode
    /\ result' = NoResult
    /\ attempts' = 0
    /\ UNCHANGED <<blob, handle, size_result, split>>

\* "blob.grow_to_valid_string(byte_range, start, end)" with the arguments of
\* the asynchronous call
SyncCall ==
    /\ ~IsNone(twin)
    /\ CallTextAs("sync", "grow_to_valid_string",
                  [byte_range |-> Val(twin).call.byte_range,
                   start |-> Val(twin).call.start, end |-> Val(twin).call.end])

\* the server answers as it answered the asynchronous run
SameAnswers(statuses, stats, run) ==
    /\ Len(statuses) <= Len(run.responses)
    /\ \A k \in 1..Len(statuses) : statuses[k] = run.responses[k]
    /\ ~IsNone(stats) => stats = run.blob_stats

SyncRun ==
    /\ ~IsNone(twin)
    /\ GrowSteps
    /\ SameAnswers(responses', blob_stats', Val(twin))

NextPair ==
    \/ AsyncCall
    \/ AsyncRun
    \/ StartSync
    \/ SyncCall
    \/ SyncRun

SpecPair == InitPair /\ [][NextPair]_vars

(***************************************************************************)
(* Properties.                                                             *)
(***************************************************************************)
Ok(status) == status >= 200 /\ status <= 299

GrowDone == pc = "done" /\ call.op \in GrowOps

\* the number of requests issued for a purpose
Fetches(purpose) ==
    Cardinality({k \in 1..Len(requests) : requests[k].purpose = purpose})

\* offsets of the first bytes of the code points of a valid UTF-8 byte string
CpStarts(b) == {i \in 0..(Len(b) - 1) : ~IsContinuation(b[i + 1])}

\* the first byte of the code point containing byte a
CpStartOf(b, a) ==
    CHOOSE i \in CpStarts(b) : i <= a /\ \A j \in CpStarts(b) : j <= a => j <= i

\* the last byte of the code point containing byte e
CpEndOf(b, e) ==
    LET later == {j \in CpStarts(b) : j > e}
    IN  IF later = {} THEN Len(b) - 1
        ELSE (CHOOSE j \in later : \A k \in later : j <= k) - 1

HasReplacement(text) == \E k \in 1..Len(text) : text[k] = ReplacementChar

\* a grow call with explicit start and end on a valid UTF-8 blob, both edges
\* at least 3 bytes away from the ends of the blob, that returned a string
\* (a size lookup, if one was made, reported the blob's length)
LosslessCase ==
    /\ GrowDone
    /\ result.kind = "str"
    /\ blob \in ValidBlobs
    /\ IsNone(call.byte_range) /\ ~IsNone(call.start) /\ ~IsNone(call.end)
    /\ Val(call.start) >= 3
    /\ Val(call.end) <= Len(blob) - 4
    /\ IsNone(blob_stats) \/ size(Val(blob_stats)) = [kind |-> "int", value |-> Len(blob)]

\* C1: lossless grow.  On a valid UTF-8 blob, for a range [a, b] whose edges
\* are at least 3 bytes away from both ends, grow returns the strict decode
\* of the bytes from the first byte of the code point containing a to the
\* last byte of the code point containing b, with no replacement character.
C1_LosslessGrow ==
    LosslessCase =>
        LET a == CpStartOf(blob, Val(call.start))
            b == CpEndOf(blob, Val(call.end))
        IN  /\ result.value = DecodeStrict(SubSeq(blob, a + 1, b + 1)).text
            /\ ~HasReplacement(result.value)

\* C2: grow issues at most 3 single-byte fetches on the left edge and at most
\* 3 on the right edge; a counter may reach 4, and the increment that brings
\* it to 4 ends the operation without a fetch.
C2_ExtensionFetchBound ==
    call.op \in GrowOps =>
        /\ Fetches("left") <= MaxExtension - 1
        /\ Fetches("right") <= MaxExtension - 1
        /\ left_extension <= MaxExtension
        /\ right_extension <= MaxExtension
        /\ left_extension = MaxExtension =>
                pc = "done" /\ Fetches("left") = MaxExtension - 1
        /\ right_extension = MaxExtension =>
                pc = "done" /\ Fetches("right") = MaxExtension - 1

\* three left fetches were made and the fourth increment ended in the fallback
C2_CapReached ==
    /\ GrowDone
    /\ left_extension = MaxExtension
    /\ Fetches("left") = MaxExtension - 1
    /\ result.via = "fallback"

InitialSlice ==
    LET first == OrZero(range_start)
        last == IF IsNone(range_end) THEN Len(blob) - 1
                ELSE Min(Val(range_end), Len(blob) - 1)
    IN  SubSeq(blob, first + 1, last + 1)

\* C4: whenever grow aborts, the string returned is the lossy-replacement
\* decode of the first-fetched fragment (the bytes of the requested range),
\* whatever bytes had been prepended or appended before the abort.
C4_FallbackIsOriginal ==
    (GrowDone /\ result.via = "fallback") =>
        /\ result.kind = "str"
        /\ result.value = DecodeReplace(InitialSlice)

\* grow aborted after it had extended the fragment
C4_AbortAfterExtension ==
    /\ GrowDone
    /\ result.via = "fallback"
    /\ Len(fragment) > Len(original_fragment)
    /\ DecodeReplace(fragment) # DecodeReplace(original_fragment)

\* C5: shrink issues exactly one HTTP request, the initial GET: no single-byte
\* fetch and no size lookup, however many trimming passes run.
C5_ShrinkOneRequest ==
    call.op = "shrink_to_valid_string" =>
        /\ Len(requests) = 1
        /\ requests[1].method = "GET"
        /\ requests[1].purpose \in {"initial", "whole"}

\* shrink returned after it trimmed bytes at an edge of the fragment
C5_ShrinkTrimmed ==
    /\ pc = "done"
    /\ call.op = "shrink_to_valid_string"
    /\ result.kind = "str"
    /\ Len(fragment) < Len(original_fragment)

SplitDone == pc = "split" /\ ~IsNone(split.A) /\ ~IsNone(split.B)

\* the split offset falls between two code points of the text
OnBoundary(t, i) == \E k \in 0..Len(t) : Len(Encode(SubSeq(t, 1, k))) = i

\* C6: shrinking s[0:i] and s[i:] of a valid UTF-8 byte string s gives A and
\* B without replacement characters, A a prefix and B a suffix of decode(s);
\* A followed by B is decode(s) when i is on a code-point boundary, and
\* otherwise decode(s) without the one code point straddling offset i.
C6_SplitReconstruction ==
    SplitDone =>
        LET full == DecodeStrict(blob).text
            A == Val(split.A)
            B == Val(split.B)
        IN  /\ ~HasReplacement(A) /\ ~HasReplacement(B)
            /\ Len(A) <= Len(full) /\ A = SubSeq(full, 1, Len(A))
            /\ Len(B) <= Len(full)
            /\ B = SubSeq(full, Len(full) - Len(B) + 1, Len(full))
            /\ IF OnBoundary(full, split.at) THEN A \o B = full
               ELSE /\ Len(A) + Len(B) = Len(full) - 1
                    /\ full = A \o <<full[Len(A) + 1]>> \o B
                    /\ Len(Encode(A)) < split.at
                    /\ split.at < Len(Encode(A)) + Len(EncodeCp(full[Len(A) + 1]))

\* both fragments are shrunk after a split inside a code point between two others
C6_SplitInsideCodePoint ==
    /\ SplitDone
    /\ ~OnBoundary(split.text, split.at)
    /\ Val(split.A) # <<>>
    /\ Val(split.B) # <<>>

\* C7: get, get_lines, stream and stream_lines called with a range object
\* and a start or an end fail with the ValueError of conflicting parameters,
\* and no request has been issued on the client.
C7_ByteOpsConflict ==
    (call.op \in ByteOps /\ Conflicting(call)) =>
        /\ pc = "done"
        /\ result.kind = "ValueError"
        /\ result.via = "build_get_headers"
        /\ requests = <<>>

\* a byte-returning operation was called with conflicting parameters
C7_ConflictRaised ==
    /\ call.op \in ByteOps
    /\ Conflicting(call)
    /\ result.kind = "ValueError"

\* C8: get_valid_string, grow_to_valid_string and shrink_to_valid_string
\* called with a range object and a start or an end fail with the ValueError
\* of conflicting parameters, and no request has been issued.
C8_TextOpsConflict ==
    (call.op \in TextOps /\ Conflicting(call)) =>
        /\ pc = "done"
        /\ result.kind = "ValueError"
        /\ requests = <<>>

\* the number of decimal digits of a small natural number
NumDigits(n) == IF n < 10 THEN 1 ELSE IF n < 100 THEN 2 ELSE 3

\* the Range header of the first request of a call that passed start / end
\* and no range object
FirstRange == requests[1].range

ExplicitCall == call.op \in (ByteOps \cup TextOps) /\ IsNone(call.byte_range) /\ requests # <<>>

\* C9: with explicit start / end, no Range header is produced iff both are
\* absent; otherwise it is "bytes=<s>-<e>", s the start or 0 when absent, e
\* the end or empty when absent (5,10: "bytes=5-10"; 5 alone: "bytes=5-";
\* 10 alone: "bytes=0-10"; 0 alone: "bytes=0-").
C9_RangeEncoding ==
    ExplicitCall =>
        LET s == IF IsNone(call.start) THEN 0 ELSE Val(call.start) IN
        /\ IsNone(FirstRange) <=> (IsNone(call.start) /\ IsNone(call.end))
        /\ ~IsNone(FirstRange) =>
            /\ SubSeq(Val(FirstRange), 1, 6) = <<"b", "y", "t", "e", "s", "=">>
            /\ RangeBounds(Val(FirstRange)) = [start |-> s, end |-> call.end]
            /\ Len(Val(FirstRange)) =
                    6 + NumDigits(s) + 1
                    + (IF IsNone(call.end) THEN 0 ELSE NumDigits(Val(call.end)))
            /\ \A k \in 7..Len(Val(FirstRange)) :
                    Val(FirstRange)[k] = "-" \/ IsDigitChar(Val(FirstRange)[k])
        /\ (call.start = Some(5) /\ call.end = Some(10)) =>
                FirstRange = Some(<<"b", "y", "t", "e", "s", "=", "5", "-", "1", "0">>)
        /\ (call.start = Some(5) /\ call.end = None) =>
                FirstRange = Some(<<"b", "y", "t", "e", "s", "=", "5", "-">>)
        /\ (call.start = None /\ call.end = Some(10)) =>
                FirstRange = Some(<<"b", "y", "t", "e", "s", "=", "0", "-", "1", "0">>)
        /\ (call.start = Some(0) /\ call.end = None) =>
                FirstRange = Some(<<"b", "y", "t", "e", "s", "=", "0", "-">>)

\* a call with an end of two digits and no start sent "bytes=0-10"
C9_EndAlone ==
    /\ ExplicitCall
    /\ call.start = None
    /\ call.end = Some(10)
    /\ FirstRange = Some(<<"b", "y", "t", "e", "s", "=", "0", "-", "1", "0">>)

StatsRead == pc = "done" /\ result.kind = "stats" /\ ~IsNone(size_result)

Classified == pc = "done" /\ result.kind = "BlobError" /\ ~IsNone(failure)

Tag == Val(handle).url_type
FailStatus == Val(failure).status
FailBody == Val(failure).body

\* the text of the first Code element below the root of the failed
\* response's body, None when there is none or the body is not XML
BodyCode == FindText(ParseXml(FailBody), "Code")

\* the variant the status code alone gives
StatusOnlyVariant(st) ==
    CASE st = 403 -> "AuthenticationFailedError"
      [] st = 404 -> "BlobNotFoundError"
      [] st >= 500 -> "RetryableBlobError"
      [] OTHER -> "NonRetryableBlobError"

\* C12: for an S3 handle the error is ContainerNotFound iff the status is 404
\* and the body's Code is NoSuchBucket, BlobNotFound for every other 404,
\* AuthenticationFailed with extra_info equal to the body's Code for 403,
\* Retryable from 500 on and NonRetryable for every remaining status.
C12_S3Classification ==
    (Classified /\ Tag = "S3") =>
        LET e == result.value
            st == FailStatus
        IN  /\ e.variant = "ContainerNotFoundError"
                    <=> (st = 404 /\ BodyCode = Some("NoSuchBucket"))
            /\ (st = 404 /\ BodyCode # Some("NoSuchBucket"))
                    => e.variant = "BlobNotFoundError"
            /\ st = 403 => (e.variant = "AuthenticationFailedError" /\ e.extra_info = BodyCode)
            /\ st >= 500 => e.variant = "RetryableBlobError"
            /\ (st \notin {403, 404} /\ st < 500) => e.variant = "NonRetryableBlobError"
            /\ (st = 404 /\ FailBody = S3Error("NoSuchBucket"))
                    => e.variant = "ContainerNotFoundError"
            /\ (st = 404 /\ FailBody \in {S3Error("NoSuchKey"), <<>>, <<Text("Not Found")>>,
                                          Elem("Error", <<>>)})
                    => e.variant = "BlobNotFoundError"
            /\ (st = 403 /\ FailBody = S3Error("NoSuchKey"))
                    => e.extra_info = Some("NoSuchKey")
            /\ (st = 403 /\ FailBody = <<>>) => e.extra_info = None

\* a 404 with a NoSuchBucket document on an S3 handle was ContainerNotFound
C12_NoSuchBucket ==
    /\ Classified
    /\ Tag = "S3"
    /\ FailStatus = 404
    /\ FailBody = S3Error("NoSuchBucket")
    /\ result.value.variant = "ContainerNotFoundError"

\* the Azure error document of a failed authentication
AzureAuthBody ==
    Elem("Error", Elem("Code", <<Text("AuthenticationFailed")>>)
                  \o Elem("AuthenticationErrorDetail", <<Text("d")>>))

\* C13: for an Azure handle the error is ContainerNotFound iff the status is
\* 404 and the body's Code is ContainerNotFound, BlobNotFound for every other
\* 404, AuthenticationFailed for 403, Retryable from 500 on, NonRetryable
\* otherwise; extra_info is the AuthenticationErrorDetail text for a 403 whose
\* body has that element and None in every other case.
C13_AzureClassification ==
    (Classified /\ Tag = "AZURE") =>
        LET e == result.value
            st == FailStatus
        IN  /\ e.variant = "ContainerNotFoundError"
                    <=> (st = 404 /\ BodyCode = Some("ContainerNotFound"))
            /\ (st = 404 /\ BodyCode # Some("ContainerNotFound"))
                    => e.variant = "BlobNotFoundError"
            /\ st = 403 => e.variant = "AuthenticationFailedError"
            /\ st >= 500 => e.variant = "RetryableBlobError"
            /\ (st \notin {403, 404} /\ st < 500) => e.variant = "NonRetryableBlobError"
            /\ e.extra_info = IF st = 403
                              THEN FindText(ParseXml(FailBody), "AuthenticationErrorDetail")
                              ELSE None
            /\ (st = 403 /\ FailBody = AzureAuthBody) => e.extra_info = Some("d")
            /\ (st # 403 /\ FailBody = AzureAuthBody) => e.extra_info = None
            /\ (st = 404 /\ FailBody = S3Error("ContainerNotFound"))
                    => e.variant = "ContainerNotFoundError"
            /\ (st = 404 /\ FailBody = S3Error("NoSuchBucket"))
                    => e.variant = "BlobNotFoundError"

\* a 500 whose body has the detail element was classified without extra_info
C13_DetailIgnoredOn500 ==
    /\ Classified
    /\ Tag = "AZURE"
    /\ FailStatus = 500
    /\ FailBody = AzureAuthBody
    /\ result.value.variant = "RetryableBlobError"
    /\ result.value.extra_info = None

\* C14: for a GCP or GENERIC handle the variant is a function of the status
\* code alone (403 AuthenticationFailed, 404 BlobNotFound, from 500 on
\* Retryable, anything else NonRetryable), whatever the body, and it is never
\* ContainerNotFound.
C14_StatusOnlyClassification ==
    (Classified /\ Tag \in {"GCP", "GENERIC"}) =>
        /\ result.value.variant = StatusOnlyVariant(FailStatus)
        /\ result.value.variant # "ContainerNotFoundError"
        /\ result.value.message = None
        /\ result.value.extra_info = None

\* a GCP handle classified a 404 carrying an S3 NoSuchBucket document
C14_GcpIgnoresBody ==
    /\ Classified
    /\ Tag = "GCP"
    /\ FailStatus = 404
    /\ FailBody = S3Error("NoSuchBucket")
    /\ result.value.variant = "BlobNotFoundError"

\* C15: for every provider, status and body the error is Retryable iff the
\* status is at least 500, and below 500 it is NonRetryable or one of its
\* three specializations.
C15_RetryableIffServerError ==
    Classified =>
        /\ result.value.variant = "RetryableBlobError" <=> FailStatus >= 500
        /\ FailStatus < 500 =>
                result.value.variant \in {"NonRetryableBlobError", "ContainerNotFoundError",
                                          "BlobNotFoundError", "AuthenticationFailedError"}
        /\ FailStatus \in {403, 404} => result.value.variant # "RetryableBlobError"

\* an S3 handle classified a status of exactly 500 as Retryable
C15_Status500Retryable ==
    /\ Classified
    /\ Tag = "S3"
    /\ FailStatus = 500
    /\ result.value.variant = "RetryableBlobError"

\* bodies that are not one well-formed XML document: empty, plain text, not
\* UTF-8, text or bytes after the root element, a mismatched closing tag, a
\* document that ends inside the root element
UnparsableBodies ==
    {<<>>,
     <<Text("Not Found")>>,
     <<BadBytes>>,
     S3Error("NoSuchBucket") \o <<Text("junk")>>,
     S3Error("ContainerNotFound") \o <<BadBytes>>,
     <<Open("Error"), Open("Code"), Text("NoSuchBucket"), Close("Error")>>,
     <<Open("Error"), Open("Code"), Text("ContainerNotFound"), Close("Code")>>}

\* C16: every failed response, whatever the provider, status and body, is
\* classified into a BlobError that carries the status code, the handle's
\* provider tag and the body's text; for S3 and Azure a body that cannot be
\* parsed gives the variant of the status-code-only rule.
C16_ClassificationTotal ==
    (pc = "done" /\ ~IsNone(failure)) =>
        /\ result.kind = "BlobError"
        /\ result.value.variant \in {"RetryableBlobError", "NonRetryableBlobError",
                                     "ContainerNotFoundError", "BlobNotFoundError",
                                     "AuthenticationFailedError"}
        /\ result.value.status_code = FailStatus
        /\ result.value.url_type = Tag
        /\ result.value.raw_data = DecodeBody(FailBody)
        /\ (\A i \in 1..Len(FailBody) : FailBody[i].k # "bytes")
                => result.value.raw_data = FailBody
        /\ FailBody \in UnparsableBodies =>
                /\ result.value.variant = StatusOnlyVariant(FailStatus)
                /\ result.value.message = None
                /\ result.value.extra_info = None

\* an Azure handle classified a 404 whose ContainerNotFound document is cut
\* off before the root element closes
C16_TruncatedDocument ==
    /\ Classified
    /\ Tag = "AZURE"
    /\ FailStatus = 404
    /\ FailBody = <<Open("Error"), Open("Code"), Text("ContainerNotFound"), Close("Code")>>
    /\ result.value.variant = "BlobNotFoundError"
    /\ result.value.status_code = 404

\* C17: detection tries S3, then GCP, then Azure and the first match wins; a
\* URL that matches no pattern is GENERIC; a handle constructed with an
\* explicit provider tag has that tag whatever its URL, and the tag decides
\* the headers of its requests and the classification of its failures.
\* (The detected tag is examined on the freshly constructed handle; no
\* operation changes a handle.)
C17_DetectionOrderAndOverride ==
    ~IsNone(handle) =>
        LET h == Val(handle)
        IN  /\ ~IsNone(h.given) => h.url_type = Val(h.given)
            /\ (IsNone(h.given) /\ pc = "idle") =>
                /\ is_s3_compatible(h.url) => h.url_type = "S3"
                /\ (~is_s3_compatible(h.url) /\ is_gcp_compatible(h.url))
                        => h.url_type = "GCP"
                /\ (~is_s3_compatible(h.url) /\ ~is_gcp_compatible(h.url)
                        /\ is_azure_compatible(h.url)) => h.url_type = "AZURE"
                /\ (~is_s3_compatible(h.url) /\ ~is_gcp_compatible(h.url)
                        /\ ~is_azure_compatible(h.url)) => h.url_type = "GENERIC"
                /\ h.url \in {UrlS3Regional, UrlS3Global, UrlHetzner, UrlS3AndGcp,
                              UrlS3AndAzure} => h.url_type = "S3"
                /\ h.url \in {UrlGcp, UrlGcpConsole, UrlGcpAndAzure} => h.url_type = "GCP"
                /\ h.url = UrlAzure => h.url_type = "AZURE"
                /\ h.url \in {PlainUrl, UrlUpperRegion, UrlNoRegion}
                        => h.url_type = "GENERIC"
            /\ \A i \in 1..Len(requests) :
                    requests[i].method = "PUT" =>
                        requests[i].headers.x_ms_blob_type =
                            IF h.url_type = "AZURE" THEN Some("BlockBlob") ELSE None
            /\ Classified =>
                /\ result.value.url_type = h.url_type
                /\ h.url_type \in {"GCP", "GENERIC"}
                        => result.value.variant = StatusOnlyVariant(FailStatus)
                /\ (FailStatus = 404 /\ FailBody = S3Error("NoSuchBucket"))
                        => (result.value.variant = "ContainerNotFoundError"
                                <=> h.url_type = "S3")
                /\ (FailStatus = 404 /\ FailBody = S3Error("ContainerNotFound"))
                        => (result.value.variant = "ContainerNotFoundError"
                                <=> h.url_type = "AZURE")

\* a handle for an Azure URL constructed with the S3 tag sent a PUT without
\* the Azure blob-type header and classified its failure as S3 does
C17_ExplicitTagOverrides ==
    /\ Classified
    /\ Val(handle).url = UrlAzure
    /\ Val(handle).given = Some("S3")
    /\ call.op = "put"
    /\ requests[1].headers.x_ms_blob_type = None
    /\ FailStatus = 404
    /\ FailBody = S3Error("NoSuchBucket")
    /\ result.value.variant = "ContainerNotFoundError"
    /\ result.value.url_type = "S3"

\* every response received so far was a success
AllOk == \A k \in 1..Len(responses) : Ok(responses[k])

\* C18: the exchanges of one operation are sequential: a request is issued
\* only when every earlier request has its response, so at most one exchange
\* is outstanding; in grow an extension fetch or size lookup is outstanding
\* only after every earlier exchange succeeded and the strict decode of the
\* fragment fetched so far has failed.
C18_SequentialExchanges ==
    /\ Len(requests) = Len(responses) + (IF pc = "await" THEN 1 ELSE 0)
    /\ pc = "await" <=> ~IsNone(outstanding)
    /\ pc = "await" => Val(outstanding) = requests[Len(requests)]
    /\ (Awaiting("left") \/ Awaiting("stat") \/ Awaiting("right")) =>
            /\ call.op \in GrowOps
            /\ Len(responses) >= 1
            /\ AllOk
            /\ last_decode = DecodeStrict(fragment)
            /\ ~last_decode.ok

\* grow has its third request outstanding, the two before it answered
C18_ThirdExchange ==
    /\ Awaiting("right")
    /\ Len(requests) = 3
    /\ Len(responses) = 2
    /\ ~DecodeStrict(fragment).ok

\* the number of extension bytes fetched successfully
ExtensionsReceived ==
    Cardinality({k \in 1..Len(responses) :
                    Ok(responses[k]) /\ requests[k].purpose \in {"left", "right"}})

\* C19: headers are built before the request, so a call whose arguments
\* build_get_headers rejects issues no request; an exchange that completes
\* with a non-success status ends the operation with the BlobError
\* classified for the handle's provider tag, with no request after it and
\* no decode of its body; the resolver's loop and every decoded result are
\* reached only after successful responses.
C19_CallSequence ==
    /\ (result.kind = "ValueError" /\ result.via = "build_get_headers")
            => (requests = <<>> /\ responses = <<>>)
    /\ (\E k \in 1..Len(responses) : ~Ok(responses[k])) =>
            /\ ~Ok(responses[Len(responses)])
            /\ \A k \in 1..(Len(responses) - 1) : Ok(responses[k])
            /\ Len(requests) = Len(responses)
            /\ pc = "done"
            /\ result.kind = "BlobError"
            /\ result.via = "validate_response"
            /\ ~IsNone(failure)
            /\ FailStatus = responses[Len(responses)]
            /\ result.value = parse_error(Val(failure), Tag)
            /\ result.value.url_type = Tag
            /\ result.value.status_code = responses[Len(responses)]
            /\ call.op \in TextOps =>
                    /\ Len(fragment) = IF Len(responses) = 1 THEN 0
                                       ELSE Len(original_fragment) + ExtensionsReceived
                    /\ last_decode = IF Len(responses) = 1 THEN NoDecode
                                     ELSE DecodeStrict(fragment)
    /\ (pc \in {"grow_loop", "shrink_loop"} \/ last_decode # NoDecode
            \/ result.via \in {"decode", "fallback", "whole"}) =>
            /\ Len(responses) >= 1
            /\ Ok(responses[1])
    /\ (pc \in {"grow_loop", "shrink_loop"} \/ result.kind \in {"str", "bytes", "lines",
                                                                 "chunks", "stats", "None"})
            => AllOk

\* a grow on a handle with an explicit provider tag had its second exchange
\* fail and raised the error of that provider
C19_ExtensionFailureClassified ==
    /\ pc = "done"
    /\ call.op \in GrowOps
    /\ Val(handle).given = Some("AZURE")
    /\ Len(responses) = 2
    /\ ~Ok(responses[2])
    /\ Len(requests) = 2
    /\ result.kind = "BlobError"
    /\ result.value.url_type = "AZURE"

\* C20: one execution of grow issues the size lookup at most once, and only
\* after a strict decode of the fragment failed with an unexpected end at
\* the fragment's last offset; an execution that never fails there issues
\* none.
C20_LazySizeLookup ==
    call.op \in GrowOps =>
        /\ Fetches("stat") <= 1
        /\ Awaiting("stat") =>
                /\ ~last_decode.ok
                /\ last_decode = DecodeStrict(fragment)
                /\ UnexpectedEnd(last_decode)
                /\ last_decode.end = Len(fragment)
                /\ right_extension = 1
        /\ Fetches("stat") = 1 <=> right_extension >= 1
        /\ Fetches("right") >= 1 => (Fetches("stat") = 1 /\ ~IsNone(blob_stats))
        /\ (GrowDone /\ result.via = "decode" /\ Len(requests) = 1) => Fetches("stat") = 0
        /\ ~IsNone(blob_stats) => Fetches("stat") = 1

\* grow extended to the right twice with a single size lookup
C20_TwoExtensionsOneLookup ==
    /\ call.op \in GrowOps
    /\ right_extension = 2
    /\ Fetches("right") = 2
    /\ Fetches("stat") = 1

\* the latest decode attempt failed at the left edge / at the right edge
LeftEdgeFailure ==
    /\ ~last_decode.ok
    /\ last_decode.start = 0
    /\ last_decode.reason = "invalid start byte"

RightEdgeFailure ==
    /\ ~last_decode.ok
    /\ ~LeftEdgeFailure
    /\ last_decode.end = Len(fragment)
    /\ last_decode.reason = "unexpected end of data"

\* the offset a single-byte extension request addresses
FetchOffset(req) == RangeBounds(Val(req.range)).start

\* every extension fetch of grow addresses one byte inside the blob
ExtensionsInsideBlob ==
    \A k \in 1..Len(requests) :
        requests[k].purpose \in {"left", "right"} =>
            /\ ~IsNone(requests[k].range)
            /\ LET p == FetchOffset(requests[k])
               IN  /\ RangeBounds(Val(requests[k].range)).end = Some(p)
                   /\ p >= 0
                   /\ p < Len(blob)

\* grow has ended on an edge where no further extension is allowed
LeftAbortCase ==
    /\ GrowDone
    /\ LeftEdgeFailure
    /\ IsNone(range_start) \/ left_extension > Val(range_start)

RightAbortCase ==
    /\ GrowDone
    /\ RightEdgeFailure
    /\ IsNone(range_end) \/ Val(range_end) + right_extension + 1 >= Len(blob)

\* C21 as stated: extension fetches stay inside the blob, none is attempted
\* on an edge without a bound or past an end of the blob, and in each of
\* these cases grow aborts to the replacement decode.
C21_AbortsToReplacement ==
    call.op \in GrowOps =>
        /\ ExtensionsInsideBlob
        /\ IsNone(range_start) => Fetches("left") = 0
        /\ IsNone(range_end) => Fetches("right") = 0
        /\ (LeftAbortCase \/ RightAbortCase) => result.via = "fallback"

\* C21 amended: every extension fetch addresses one byte at an offset p with
\* 0 <= p < blob size; without a start bound, or at offset 0, no left fetch
\* is issued and grow returns the replacement decode; without an upper
\* bound, or at the blob's end, no right fetch is issued, but the size lookup
\* comes first, so grow returns the replacement decode only if that lookup
\* succeeds (and, for a bounded range, reports a size), and raises otherwise.
C21_ExtensionBounds ==
    call.op \in GrowOps =>
        /\ ExtensionsInsideBlob
        /\ IsNone(range_start) => Fetches("left") = 0
        /\ ~IsNone(range_start) => Fetches("left") <= Val(range_start)
        /\ IsNone(range_end) => Fetches("right") = 0
        /\ Fetches("right") >= 1 => Val(range_end) + Fetches("right") < Len(blob)
        /\ LeftAbortCase =>
                /\ result.via = "fallback"
                /\ Fetches("left") = left_extension - 1
                /\ requests[Len(requests)].purpose # "stat"
        /\ RightAbortCase =>
                /\ Fetches("right") = right_extension - 1
                /\ Fetches("stat") = 1
                /\ result.via \in {"fallback", "validate_response", "size"}
                /\ result.via = "validate_response" <=>
                        (requests[Len(requests)].purpose = "stat"
                            /\ ~Ok(responses[Len(responses)]))
                /\ result.via = "size" <=>
                        /\ ~IsNone(range_end)
                        /\ ~IsNone(blob_stats)
                        /\ Val(blob_stats) = [content_range |-> None, content_length |-> None]

\* grow extended to the right up to the blob's end and then fell back
C21_StoppedAtBlobEnd ==
    /\ RightAbortCase
    /\ ~IsNone(range_end)
    /\ Fetches("right") >= 1
    /\ result.via = "fallback"
    /\ Val(range_end) + right_extension + 1 >= Len(blob)

\* the latest decode attempt failed at neither edge
MiddleFailure == ~last_decode.ok /\ ~LeftEdgeFailure /\ ~RightEdgeFailure

\* C22: when a strict decode attempt of grow fails with neither an invalid
\* start at offset 0 nor an unexpected end at the fragment's last offset,
\* grow issues no further request and returns the replacement decode of the
\* first-fetched fragment, on the first attempt and after earlier extensions.
C22_MiddleFailureAborts ==
    /\ (call.op \in GrowOps /\ pc = "await") => ~MiddleFailure
    /\ (GrowDone /\ MiddleFailure) =>
            /\ last_decode = DecodeStrict(fragment)
            /\ result.kind = "str"
            /\ result.via = "fallback"
            /\ result.value = DecodeReplace(original_fragment)
            /\ AllOk
            /\ Len(requests) = Len(responses)
            /\ requests[Len(requests)].purpose \in {"initial", "left", "right"}
            /\ Len(fragment) = Len(original_fragment) + Fetches("left") + Fetches("right")

\* after extending on both edges grow met a failure inside the fragment
C22_MiddleAfterExtensions ==
    /\ GrowDone
    /\ MiddleFailure
    /\ Fetches("left") >= 1
    /\ Fetches("right") >= 1
    /\ result.via = "fallback"

Completed(purpose) ==
    Cardinality({k \in 1..Len(responses) :
                    Ok(responses[k]) /\ requests[k].purpose = purpose})

\* the rank of request k among the requests of its purpose
RankOf(k) ==
    Cardinality({j \in 1..k : requests[j].purpose = requests[k].purpose})

\* the bytes of the blob at the offsets first..last
BlobSlice(first, last) == SubSeq(blob, first + 1, last + 1)

\* C24: once the first fragment is fetched, the working fragment of grow is
\* the blob's bytes at the offsets [start - L, end + R], L and R being the
\* left and right extension fetches completed so far; the k-th left fetch
\* asks for the single byte at start - k and the k-th right fetch for the
\* single byte at end + k; the first-fetched fragment is never altered.
C24_Contiguity ==
    (call.op \in GrowOps /\ Len(responses) >= 1 /\ Ok(responses[1])
            /\ requests[1].purpose = "initial") =>
        LET first == OrZero(range_start)
            last == IF IsNone(range_end) THEN Len(blob) - 1
                    ELSE Min(Val(range_end), Len(blob) - 1)
            L == Completed("left")
            R == Completed("right")
        IN  /\ fragment = BlobSlice(first - L, last + R)
            /\ original_fragment = BlobSlice(first, last)
            /\ Len(fragment) = Len(original_fragment) + L + R
            /\ L >= 1 => first = Val(range_start)
            /\ R >= 1 => last = Val(range_end)
            /\ \A k \in 1..Len(requests) :
                    /\ requests[k].purpose = "left" =>
                            RangeBounds(Val(requests[k].range))
                                = [start |-> Val(range_start) - RankOf(k),
                                   end |-> Some(Val(range_start) - RankOf(k))]
                    /\ requests[k].purpose = "right" =>
                            RangeBounds(Val(requests[k].range))
                                = [start |-> Val(range_end) + RankOf(k),
                                   end |-> Some(Val(range_end) + RankOf(k))]

\* the fragment has grown by one byte on each side of the requested range
C24_GrownOnBothSides ==
    /\ call.op \in GrowOps
    /\ pc = "grow_loop"
    /\ Completed("left") = 1
    /\ Completed("right") = 1
    /\ fragment = BlobSlice(Val(range_start) - 1, Val(range_end) + 1)
    /\ original_fragment = BlobSlice(Val(range_start), Val(range_end))

\* grow has ended on a valid UTF-8 blob whose last code point is cut by the
\* upper bound of the range, after a successful fetch of the first fragment
CutAtTail ==
    /\ GrowDone
    /\ blob \in ValidBlobs
    /\ ~IsNone(range_end)
    /\ Val(range_end) < Len(blob) - 1
    /\ CpEndOf(blob, Val(range_end)) = Len(blob) - 1
    /\ responses # <<>> /\ Ok(responses[1])
    /\ requests[1].purpose = "initial"

\* no right extension fetch addresses the last byte of the blob
LastByteNeverFetched ==
    \A k \in 1..Len(requests) :
        requests[k].purpose = "right" =>
            /\ Val(range_end) + RankOf(k) + 1 < Len(blob)
            /\ FetchOffset(requests[k]) < Len(blob) - 1

ShrinkCalled == call.op = "shrink_to_valid_string"

\* the loop of shrink is running or has returned
ShrinkLooped ==
    /\ ShrinkCalled
    /\ responses # <<>> /\ Ok(responses[1])
    /\ requests[1].purpose = "initial"

\* the decode attempts are paid for by bytes trimmed off the fragment, and
\* the loop ends with a strict decode or the replacement decode
ShrinkBudget ==
    ShrinkLooped =>
        /\ Len(fragment) <= Len(original_fragment)
        /\ pc = "shrink_loop" =>
                attempts <= Len(original_fragment) - Len(fragment)
        /\ pc = "done" =>
                /\ attempts <= Len(original_fragment) - Len(fragment) + 1
                /\ attempts <= Len(original_fragment) + 1
                /\ result.kind = "str"
                /\ result.via \in {"decode", "fallback"}
                /\ result.via = "decode" =>
                        /\ DecodeStrict(fragment).ok
                        /\ result.value = DecodeStrict(fragment).text
                /\ result.via = "fallback" =>
                        /\ ~DecodeStrict(fragment).ok
                        /\ result.value = DecodeReplace(fragment)

\* a pass of the loop returns or leaves a strictly shorter fragment
ShrinkPassShortens ==
    pc = "shrink_loop" =>
        \/ pc' = "done" /\ fragment' = fragment
        \/ pc' = "shrink_loop" /\ Len(fragment') < Len(fragment)

\* C26: shrink terminates for every fragment: each pass of the loop that
\* does not return strictly shortens the fragment, so the loop makes at most
\* len(fragment) + 1 decode attempts and ends with a successful decode
\* (possibly of the empty string) or with the replacement decode.
C26_ShrinkTerminates ==
    /\ []ShrinkBudget
    /\ [][ShrinkPassShortens]_vars
    /\ (pc = "shrink_loop") ~> (pc = "done")

\* a fragment of two bytes or more trimmed down to nothing: one attempt more
\* than it had bytes, and the empty string returned
C26_EveryByteTrimmed ==
    /\ ShrinkLooped
    /\ pc = "done"
    /\ Len(original_fragment) >= 2
    /\ attempts = Len(original_fragment) + 1
    /\ fragment = <<>>
    /\ result = [kind |-> "str", value |-> <<>>, via |-> "decode"]

\* shrink has returned the replacement decode
ShrinkFellBack == ShrinkLooped /\ pc = "done" /\ result.via = "fallback"

\* the bytes trimmed off the two ends of the first-fetched fragment
TrimmedBytes == Len(original_fragment) - Len(fragment)

\* C27: the fallback of shrink is the replacement decode of the current,
\* already trimmed fragment, not of the fragment first fetched: the bytes
\* trimmed off the ends appear in the result neither decoded nor as
\* replacement characters.
C27_FallbackOnTrimmedFragment ==
    ShrinkFellBack =>
        /\ result.kind = "str"
        /\ result.value = DecodeReplace(fragment)
        /\ \E i \in 0..TrimmedBytes :
                fragment = SubSeq(original_fragment, i + 1, i + Len(fragment))
        /\ TrimmedBytes >= 1 =>
                /\ result.value # DecodeReplace(original_fragment)
                /\ Len(result.value) < Len(DecodeReplace(original_fragment))

\* bytes were trimmed off the fragment before a failure in its middle made
\* shrink fall back
C27_TrimmedThenFellBack ==
    /\ ShrinkFellBack
    /\ TrimmedBytes >= 1
    /\ attempts >= 2
    /\ result.value = DecodeReplace(fragment)
    /\ HasReplacement(result.value)

\* the status of the response the finished operation received
AnsweredStatus == responses[Len(responses)]

\* C28: every response with a status outside 200..299 raises BlobError,
\* informational (1xx) and redirection (3xx) statuses included, which are
\* reported as NonRetryableBlobError for every provider; no response with a
\* status in 200..299 raises BlobError, whatever its body.
C28_OnlySuccessPasses ==
    (pc = "done" /\ responses # <<>>) =>
        LET st == AnsweredStatus
        IN  /\ (st < 200 \/ st > 299) =>
                    /\ result.kind = "BlobError"
                    /\ result.via = "validate_response"
                    /\ result.value.status_code = st
                    /\ result.value.url_type = Tag
                    /\ ~IsNone(failure) /\ FailStatus = st
            /\ (st < 200 \/ (st >= 300 /\ st <= 399)) =>
                    result.value.variant = "NonRetryableBlobError"
            /\ (st >= 200 /\ st <= 299) =>
                    /\ result.kind # "BlobError"
                    /\ result.kind = IF call.op = "stat" THEN "stats" ELSE "None"
                    /\ IsNone(failure)

\* a 304 answered to an Azure handle with an Azure error document is raised
\* as NonRetryableBlobError
C28_NotModifiedRaised ==
    /\ pc = "done"
    /\ Tag = "AZURE"
    /\ responses = <<304>>
    /\ FailBody = AzureAuthBody
    /\ result.kind = "BlobError"
    /\ result.value.variant = "NonRetryableBlobError"

=============================================================================
